---------------------------- MODULE Spec2Model ----------------------------
(***************************************************************************)
(* pytest-neon (src/src/pytest_neon/plugin.py): the branch lifecycle of    *)
(* the fixtures _neon_migration_branch, neon_apply_migrations,             *)
(* _neon_migrations_synchronized, _neon_branch_for_reset,                  *)
(* neon_branch_readwrite / neon_branch_readonly and neon_branch_shared,    *)
(* run by the workers of one pytest session (pytest-xdist workers gw0..,   *)
(* or the single process "main").                                          *)
(*                                                                         *)
(* A provider API call is one _retry_on_rate_limit(...) statement of the   *)
(* plugin: it either returns or raises (rate limit exhausted, API error).  *)
(* The calls of a worker are recorded, in program order, in calls[w].      *)
(***************************************************************************)
EXTENDS Integers, Sequences, FiniteSets, TLC

\* ------------------------------------------------------------------ bounds
NumWorkers == 2        \* worker processes of the session
MaxTests == 2          \* tests in the session's queue
MaxFaults == 1         \* provider/driver failures injected in one session
MaxPolls == 1          \* polls of 0.5 s that make up _MIGRATION_WAIT_TIMEOUT

Workers == 1..NumWorkers

\* ------------------------------------------------------------------ values
\* Branch ids.  owner 0 is the provider; a branch created for worker w by
\* the fixture with name suffix s has the id [owner |-> w, kind |-> s].
NoBranch == [owner |-> 0, kind |-> "None"]
JsonNull == [owner |-> 0, kind |-> "null"]
DefaultBranch == [owner |-> 0, kind |-> "default"]
PriorValue == [owner |-> 0, kind |-> "prior"]
Suffixes == {"-migrated", "-test", "-shared"}
FreshId(w, suffix) == [owner |-> w, kind |-> suffix]

\* os.environ[env_var_name]: absent, or a string (named by the branch whose
\* connection string it is; PriorValue is the value set before the session).
EnvAbsent == [present |-> FALSE, value |-> NoBranch]
EnvValue(v) == [present |-> TRUE, value |-> v]

ConnectionString(host) == host

BranchFields == {"branch_id", "project_id", "connection_string", "host", "parent_id"}

NeonBranch(branch_id, project_id, connection_string, host, parent_id) ==
    [branch_id |-> branch_id, project_id |-> project_id,
     connection_string |-> connection_string, host |-> host,
     parent_id |-> parent_id]

NoNeonBranch == NeonBranch(NoBranch, NoBranch, NoBranch, NoBranch, NoBranch)

ProjectId == [owner |-> 0, kind |-> "project"]

\* asdict(branch): one dict entry per dataclass field
branch_to_dict(branch) == [k \in BranchFields |-> branch[k]]

\* NeonBranch(**data): parent_id defaults to None when the key is missing
dict_to_branch(data) ==
    NeonBranch(data["branch_id"], data["project_id"], data["connection_string"],
               data["host"],
               IF "parent_id" \in DOMAIN data THEN data["parent_id"] ELSE NoBranch)

\* json.dumps / json.loads of the cache file: None <-> null
json_dumps(data) ==
    [branch |-> [k \in DOMAIN data.branch |->
                    IF data.branch[k] = NoBranch THEN JsonNull ELSE data.branch[k]],
     pre_migration_fingerprint |-> data.pre_migration_fingerprint]

json_loads(text) ==
    [branch |-> [k \in DOMAIN text.branch |->
                    IF text.branch[k] = JsonNull THEN NoBranch ELSE text.branch[k]],
     pre_migration_fingerprint |-> text.pre_migration_fingerprint]

NoCache == [branch |-> [k \in BranchFields |-> JsonNull],
            pre_migration_fingerprint |-> "absent"]

\* A warning (warnings.warn) or failure (pytest.fail) the plugin reports
Report(kind, branch_id, error) ==
    [kind |-> kind, branch_id |-> branch_id, error |-> error]

\* A provider API call: op(target), src = the parent / source branch given
Call(op, target, src) == [op |-> op, target |-> target, src |-> src]

\* The generator of one _create_neon_branch(...) call
NoGen == [st |-> "none", branch_id |-> NoBranch, original_env_value |-> EnvAbsent]

Fixtures == {"mb", "mig", "sync", "reset", "shared"}
Errors == {"create_error", "no_endpoint", "endpoint_timeout", "safety_check",
           "password_error", "fingerprint_error", "migration_error",
           "sync_timeout"}
FailPoints == {"none", "branch_create", "endpoint_id", "endpoint_wait",
               "role_password_reset"}

\* ------------------------------------------------------------------- state
VARIABLES
    cfg,                    \* resolved configuration of the session
    todo,                   \* tests not yet handed to a worker
    faults,                 \* failures injected so far
    lock,                   \* holder of neon_migration_branch.lock, 0 = free
    cache_file,             \* neon_migration_branch.json
    migrations_done_file,   \* neon_migrations_done exists
    migrated,               \* remote branches that contain the migrations
    pc,                     \* per worker: position in the session
    cur,                    \* per worker: fixture the current test requests
    st,                     \* per worker, per fixture: status
    br,                     \* per worker, per fixture: the NeonBranch yielded
    gen,                    \* per worker, per fixture: _create_neon_branch generator
    is_creator,             \* per worker: is_creator of _neon_migration_branch
    follower_env,           \* per worker: original_env_value of a follower
    default_id,             \* per worker: config._neon_default_branch_id
    pre_fp,                 \* per worker: config._neon_pre_migration_fingerprint
    waited,                 \* per worker: polls slept in _neon_migrations_synchronized
    env,                    \* per worker: os.environ[env_var_name]
    calls,                  \* per worker: provider API calls issued, in order
    outcome,                \* per worker: result of the last test body run
    readwrite_tests,        \* per worker: neon_branch_readwrite test bodies run
    reports,                \* per worker: warnings and failures reported
    \* one test that uses neon_branch_readwrite, its reset in detail
    rs_pc,                  \* position in the fixture / in the reset
    rs_entry,               \* who called _reset_branch_to_parent
    rs_branch,              \* the NeonBranch handed to the fixture
    rs_requests,            \* kinds of HTTP requests sent for the test
    rs_seen,                \* operation id -> status last observed
    rs_pending,             \* pending_op_ids of _wait_for_operations
    rs_waited,              \* waited of _wait_for_operations, in 0.1 s
    rs_error,               \* the error the last reset raised, "none" if none
    rs_detail,              \* what the message of that error names
    rs_poll_errors,         \* operations whose last poll raised RequestException
    rs_reports,             \* failures reported for the test
    \* one call of _retry_on_rate_limit
    rt_pc,                  \* "call" inside the loop, else how it was left
    rt_params,              \* base_delay, max_total_delay, jitter_factor, max_attempts
    rt_attempt,             \* attempt
    rt_total_delay,         \* total_delay, in ms
    rt_invocations,         \* calls of operation()
    rt_sleeps,              \* calls of time.sleep
    rt_last_sleep,          \* the last time.sleep: its delay, with a hint or not
    rt_rate_limited,        \* rate-limit errors operation() has raised
    rt_hinted,              \* whether one of them carried a Retry-After number
    rt_cause,               \* the cap that raised NeonRateLimitError
    rt_operation,           \* what the last operation() call did
    rt_result,              \* what _retry_on_rate_limit did
    \* one call of _is_rate_limit_error
    cl_pc,                  \* "call" before the call, "returned" after it
    cl_exc,                 \* exc
    cl_result,              \* the value returned
    \* one call of _get_config_value
    gc_pc,                  \* "call" before the call, "returned" after it
    gc_args,                \* what the sources hold, ini_name and default
    gc_result,              \* the value returned
    \* the start of one _create_neon_branch call
    su_pc,                  \* position in the function
    su_sources,             \* what the sources of api_key and project_id hold
    su_api_key,             \* api_key
    su_project_id,          \* project_id
    su_calls,               \* provider API calls issued, in order
    su_env,                 \* os.environ[env_var_name]
    \* the branch name of one _create_neon_branch call
    bn_pc,                  \* "call" before the name is built, "built" after
    bn_input,               \* git's answer, os.urandom(2), branch_name_suffix
    bn_git_prefix,          \* git_prefix, or none without a git branch
    bn_name,                \* branch_name
    \* the endpoint wait of one _create_neon_branch call
    ew_pc,                  \* "poll" inside the loop, else how it was left
    ew_waited,              \* waited, in 0.1 s
    ew_polls,               \* endpoint status requests answered
    ew_state,               \* state, the last current_state observed
    \* the wait of one follower in _neon_migrations_synchronized
    mw_pc,                  \* "wait" inside the loop, else how it was left
    mw_waited,              \* waited, in 0.1 s
    mw_polls,               \* migrations_done_file.exists() calls
    mw_done,                \* neon_migrations_done exists
    \* one NeonBranch written to the cache file and read back
    sz_pc,                  \* what the value at hand is: "branch", "dict", ...
    sz_branch,              \* the NeonBranch at the start
    sz_data,                \* the dict, or the JSON text of the dict
    sz_restored,            \* the NeonBranch _dict_to_branch returned
    \* the expiry of one branch creation request
    ex_pc,                  \* "call" before, then "requested" or "raised"
    ex_input,               \* the caller, the CLI option, the ini setting, now
    ex_branch_expiry,       \* branch_expiry
    ex_branch_config,       \* the expiry part of branch_config
    \* the decision of one _neon_branch_for_reset call
    fr_pc,                  \* "call" before, then "yielded" or "raised"
    fr_input,               \* the worker, the fixture's value, the schemas
    fr_result               \* what the fixture did to get the branch it yields

vars == <<cfg, todo, faults, lock, cache_file, migrations_done_file, migrated,
          pc, cur, st, br, gen, is_creator, follower_env, default_id, pre_fp,
          waited, env, calls, outcome, readwrite_tests, reports,
          rs_pc, rs_entry, rs_branch, rs_requests, rs_seen, rs_pending,
          rs_waited, rs_error, rs_detail, rs_poll_errors, rs_reports,
          rt_pc, rt_params, rt_attempt, rt_total_delay, rt_invocations,
          rt_sleeps, rt_last_sleep, rt_rate_limited, rt_hinted, rt_cause, rt_operation,
          rt_result,
          cl_pc, cl_exc, cl_result, gc_pc, gc_args, gc_result,
          su_pc, su_sources, su_api_key, su_project_id, su_calls, su_env,
          bn_pc, bn_input, bn_git_prefix, bn_name,
          ew_pc, ew_waited, ew_polls, ew_state, mw_pc, mw_waited, mw_polls,
          mw_done, sz_pc, sz_branch, sz_data, sz_restored,
          ex_pc, ex_input, ex_branch_expiry, ex_branch_config,
          fr_pc, fr_input, fr_result>>

classify_vars == <<cl_pc, cl_exc, cl_result>>
config_vars == <<gc_pc, gc_args, gc_result>>
setup_vars == <<su_pc, su_sources, su_api_key, su_project_id, su_calls, su_env>>
name_vars == <<bn_pc, bn_input, bn_git_prefix, bn_name>>
endpoint_vars == <<ew_pc, ew_waited, ew_polls, ew_state>>
migration_wait_vars == <<mw_pc, mw_waited, mw_polls, mw_done>>
serial_vars == <<sz_pc, sz_branch, sz_data, sz_restored>>

expiry_vars == <<ex_pc, ex_input, ex_branch_expiry, ex_branch_config>>

\* the state of the functions looked at on their own
for_reset_vars == <<fr_pc, fr_input, fr_result>>
unit_vars == <<serial_vars, expiry_vars, for_reset_vars>>
unit_vars_but_serial == <<expiry_vars, for_reset_vars>>
unit_vars_but_expiry == <<serial_vars, for_reset_vars>>
unit_vars_but_for_reset == <<serial_vars, expiry_vars>>

\* the state of the single calls looked at on their own
call_vars == <<classify_vars, config_vars, setup_vars, name_vars,
               endpoint_vars, migration_wait_vars, unit_vars>>

retry_vars == <<rt_pc, rt_params, rt_attempt, rt_total_delay, rt_invocations,
                rt_sleeps, rt_last_sleep, rt_rate_limited, rt_hinted, rt_cause,
                rt_operation, rt_result>>

reset_vars == <<rs_pc, rs_entry, rs_branch, rs_requests, rs_seen, rs_pending,
                rs_waited, rs_error, rs_detail, rs_poll_errors, rs_reports>>

shared_files == <<lock, cache_file, migrations_done_file>>

Unset == [owner |-> 0, kind |-> "unset"]

\* prior: the environment variable is set when the session starts.
\* changes: the overriding migration fixture changes columns of schema
\* public; data_only: it changes only what the fingerprint does not list
\* (rows, indexes, other schemas)
Configs ==
    {c \in [xdist : BOOLEAN, keep : BOOLEAN, overridden : BOOLEAN,
            driver : BOOLEAN, changes : BOOLEAN, data_only : BOOLEAN,
            prior : BOOLEAN] :
        /\ c.changes => c.overridden
        /\ c.data_only => c.overridden /\ ~c.changes /\ c.driver /\ ~c.xdist
        /\ c.xdist => c.driver /\ (c.changes <=> c.overridden)}

\* os.environ[env_var_name] when the session starts
InitialEnv == IF cfg.prior THEN EnvValue(PriorValue) ELSE EnvAbsent

\* what the message of an error of _wait_for_operations names: the failed
\* operation and the provider's error text, or the ids still pending
NoDetail == [op |-> 0, error |-> "none", pending_op_ids |-> {}]

\* the reset is not looked at in detail
ResetIdle ==
    /\ rs_pc = "off"
    /\ rs_entry = "none"
    /\ rs_branch = NoNeonBranch
    /\ rs_requests = {}
    /\ rs_seen = <<>>
    /\ rs_pending = {}
    /\ rs_waited = 0
    /\ rs_error = "none"
    /\ rs_detail = NoDetail
    /\ rs_poll_errors = {}
    /\ rs_reports = {}

\* no worker has started
WorkersIdle ==
    /\ faults = 0
    /\ lock = 0
    /\ cache_file = NoCache
    /\ migrations_done_file = FALSE
    /\ migrated = {}
    /\ pc = [w \in Workers |-> "idle"]
    /\ cur = [w \in Workers |-> "none"]
    /\ st = [w \in Workers |-> [f \in Fixtures |-> "unset"]]
    /\ br = [w \in Workers |-> [f \in {"mb", "reset", "shared"} |-> NoNeonBranch]]
    /\ gen = [w \in Workers |-> [f \in {"mb", "reset", "shared"} |-> NoGen]]
    /\ is_creator = [w \in Workers |-> FALSE]
    /\ follower_env = [w \in Workers |-> EnvAbsent]
    /\ default_id = [w \in Workers |-> Unset]
    /\ pre_fp = [w \in Workers |-> "absent"]
    /\ waited = [w \in Workers |-> 0]
    /\ env = [w \in Workers |-> InitialEnv]
    /\ calls = [w \in Workers |-> <<>>]
    /\ outcome = [w \in Workers |-> "none"]
    /\ readwrite_tests = [w \in Workers |-> 0]
    /\ reports = [w \in Workers |-> {}]

\* no call of _retry_on_rate_limit is looked at in detail
NoSleep == [delay |-> 0, hinted |-> FALSE, attempt |-> 0]

\* the Retry-After header of a response
NoHeader == [kind |-> "absent", value |-> 0]

\* an exception: its class, its response (None for NeonAPIError), its text
Error(type, response, status, header, text) ==
    [type |-> type, response |-> response, status |-> status,
     header |-> header, text |-> text]
NoError == Error("none", FALSE, 0, NoHeader, <<>>)

\* how a call ended: it returned a value or raised an error
ReturnedValue(value) == [kind |-> "returned", value |-> value, error |-> NoError]
RaisedError(error) == [kind |-> "raised", value |-> "none", error |-> error]
NoOutcome == [kind |-> "none", value |-> "none", error |-> NoError]

RetryIdle ==
    /\ rt_operation = NoOutcome
    /\ rt_result = NoOutcome
    /\ rt_pc = "off"
    /\ rt_params = [base_delay |-> 0, max_total_delay |-> 0, jitter_factor |-> 0,
                    max_attempts |-> 0]
    /\ rt_attempt = 0
    /\ rt_total_delay = 0
    /\ rt_invocations = 0
    /\ rt_sleeps = 0
    /\ rt_last_sleep = NoSleep
    /\ rt_rate_limited = 0
    /\ rt_hinted = FALSE
    /\ rt_cause = "none"

\* no call of _is_rate_limit_error is looked at
ClassifyIdle == cl_pc = "off" /\ cl_exc = NoError /\ cl_result = FALSE

\* no call of _get_config_value is looked at
ConfigIdle == gc_pc = "off" /\ gc_args = <<>> /\ gc_result = <<>>

\* the start of _create_neon_branch is not looked at in detail
SetupIdle ==
    /\ su_pc = "off"
    /\ su_sources = <<>>
    /\ su_api_key = <<>>
    /\ su_project_id = <<>>
    /\ su_calls = <<>>
    /\ su_env = <<>>

\* no branch name is looked at
NameIdle ==
    bn_pc = "off" /\ bn_input = <<>> /\ bn_git_prefix = <<>> /\ bn_name = <<>>

\* the endpoint wait is not looked at in detail
EndpointIdle ==
    ew_pc = "off" /\ ew_waited = 0 /\ ew_polls = 0 /\ ew_state = "none"

\* the wait of a follower is not looked at in detail
MigrationWaitIdle ==
    mw_pc = "off" /\ mw_waited = 0 /\ mw_polls = 0 /\ mw_done = FALSE

\* no session is looked at
SessionIdle ==
    /\ cfg = CHOOSE c \in Configs : ~c.xdist /\ ~c.keep /\ ~c.overridden
                                     /\ ~c.driver /\ ~c.prior
    /\ todo = 0
    /\ WorkersIdle

\* no NeonBranch is written and read back
SerialIdle ==
    sz_pc = "off" /\ sz_branch = <<>> /\ sz_data = <<>> /\ sz_restored = <<>>

\* no creation request is looked at for its expiry
ExpiryIdle ==
    /\ ex_pc = "off"
    /\ ex_input = <<>>
    /\ ex_branch_expiry = 0
    /\ ex_branch_config = <<>>

\* no decision of _neon_branch_for_reset is looked at
ForResetIdle == fr_pc = "off" /\ fr_input = <<>> /\ fr_result = <<>>

\* none of them is looked at, but the named one
UnitsIdleBut(unit) ==
    /\ unit # "serial" => SerialIdle
    /\ unit # "expiry" => ExpiryIdle
    /\ unit # "for_reset" => ForResetIdle

UnitsIdle == UnitsIdleBut("none")

CallsIdle ==
    /\ UnitsIdle
    /\ ClassifyIdle
    /\ ConfigIdle
    /\ SetupIdle
    /\ NameIdle
    /\ EndpointIdle
    /\ MigrationWaitIdle

Init ==
    /\ CallsIdle
    /\ RetryIdle
    /\ ResetIdle
    /\ cfg \in Configs
    /\ todo = MaxTests
    /\ WorkersIdle


\* ------------------------------------------------------- _create_neon_branch
\* _get_default_branch_id: the id of the branch flagged default/primary, or
\* None when the listing raised or flagged no branch (lookup is that outcome)
get_default_branch_id(lookup) == lookup

\* (mutant) a lookup that gave None is made again by the next call
default_branch_id_cached_if_found(memo) == memo \notin {Unset, NoBranch}

\* hasattr(config, "_neon_default_branch_id"): the attribute is set by the
\* first lookup, to the id found or to None
default_branch_id_cached(memo) == memo # Unset

\* (mutant) the safety check never fires
SafetyCheckSkipped(default_branch_id, new_id) == FALSE

\* the safety check of _create_neon_branch
SafetyCheckFails(default_branch_id, new_id) ==
    default_branch_id # NoBranch /\ new_id = default_branch_id

\* the exception _create_neon_branch raises before its yield, "ok" if none
setup_status(default_branch_id, new_id, fail_at) ==
    CASE fail_at = "branch_create" -> "create_error"
      [] fail_at = "endpoint_id" -> "no_endpoint"
      [] fail_at = "endpoint_wait" -> "endpoint_timeout"
      [] SafetyCheckFails(default_branch_id, new_id) -> "safety_check"
      [] fail_at = "role_password_reset" -> "password_error"
      [] OTHER -> "ok"

\* (mutant) the password is reset before the safety check is made
setup_calls_reset_first(default_branch_id, new_id, parent_sent, fail_at) ==
    LET status == setup_status(default_branch_id, new_id, fail_at)
    IN  <<Call("branch_create",
               IF status = "create_error" THEN NoBranch ELSE new_id, parent_sent)>>
        \o (IF status \in {"create_error", "no_endpoint"}
            THEN <<>> ELSE <<Call("endpoint", new_id, NoBranch)>>)
        \o (IF status \in {"safety_check", "password_error", "ok"}
            THEN <<Call("role_password_reset", new_id, NoBranch)>> ELSE <<>>)

\* (mutant) the endpoint is not waited for
setup_calls_no_wait(default_branch_id, new_id, parent_sent, fail_at) ==
    LET status == setup_status(default_branch_id, new_id, fail_at)
    IN  <<Call("branch_create",
               IF status = "create_error" THEN NoBranch ELSE new_id, parent_sent)>>
        \o (IF status \in {"password_error", "ok"}
            THEN <<Call("role_password_reset", new_id, NoBranch)>> ELSE <<>>)

\* the provider calls _create_neon_branch issues up to its yield or raise
setup_calls(default_branch_id, new_id, parent_sent, fail_at) ==
    LET status == setup_status(default_branch_id, new_id, fail_at)
    IN  <<Call("branch_create",
               IF status = "create_error" THEN NoBranch ELSE new_id, parent_sent)>>
        \o (IF status \in {"create_error", "no_endpoint"}
            THEN <<>> ELSE <<Call("endpoint", new_id, NoBranch)>>)
        \o (IF status \in {"password_error", "ok"}
            THEN <<Call("role_password_reset", new_id, NoBranch)>> ELSE <<>>)

\* branch.parent_id of the creation response: the parent sent, else the
\* provider's default; the default branch itself is a root, and a response
\* can come without the field (orphan)
response_parent_id(new_id, parent_sent, orphan) ==
    IF new_id = DefaultBranch \/ orphan THEN NoBranch
    ELSE IF parent_sent # NoBranch THEN parent_sent ELSE DefaultBranch

\* (mutant) the variable is written as soon as the endpoint has a host
published_env_early(status, connection_string, current) ==
    IF status \in {"ok", "safety_check", "password_error"}
    THEN EnvValue(connection_string) ELSE current

\* os.environ[env_var_name] = connection_string, the last statement before
\* the yield: reached only when no step before it raised
published_env(status, connection_string, current) ==
    IF status = "ok" THEN EnvValue(connection_string) ELSE current

\* _create_neon_branch from its entry to its yield (status "ok") or raise
create_neon_branch(w, parent_branch_id_override, lookup, new_id, orphan, fail_at) ==
    LET first == ~default_branch_id_cached(default_id[w])
        memo == IF first THEN get_default_branch_id(lookup) ELSE default_id[w]
        status == setup_status(memo, new_id, fail_at)
        host == new_id
        connection_string == ConnectionString(host)
    IN  [status |-> status,
         default_id |-> memo,
         calls |-> (IF first THEN <<Call("branches", NoBranch, NoBranch)>> ELSE <<>>)
                   \o setup_calls(memo, new_id, parent_branch_id_override, fail_at),
         branch |-> IF status = "ok"
                    THEN NeonBranch(new_id, ProjectId, connection_string, host,
                                    response_parent_id(new_id, parent_branch_id_override,
                                                       orphan))
                    ELSE NoNeonBranch,
         gen |-> IF status = "ok"
                 THEN [st |-> "yielded", branch_id |-> new_id,
                       original_env_value |-> env[w]]
                 ELSE NoGen,
         env |-> published_env(status, connection_string, env[w]),
         created |-> status # "create_error"]

\* failures injected by one run of _create_neon_branch
FaultCost(w, lookup, new_id, orphan, fail_at) ==
    (IF ~default_branch_id_cached(default_id[w]) /\ lookup = NoBranch THEN 1 ELSE 0)
    + (IF new_id = DefaultBranch THEN 1 ELSE 0)
    + (IF orphan THEN 1 ELSE 0)
    + (IF fail_at # "none" THEN 1 ELSE 0)

\* the provider has answered a creation with id b before
Returned(b) ==
    \E v \in Workers : \E n \in 1..Len(calls[v]) :
        calls[v][n].op = "branch_create" /\ calls[v][n].target = b

\* the inputs of one run: the lookup's outcome, the id the provider returns
\* (a new one, or wrongly the default branch's; never one id twice), whether
\* the response of a completed set-up lacks the parent id, and the step that
\* fails
CreateInputs(w, suffix) ==
    {i \in [lookup : {DefaultBranch, NoBranch},
            new_id : {FreshId(w, suffix), DefaultBranch},
            orphan : BOOLEAN,
            fail_at : FailPoints] :
        /\ default_branch_id_cached(default_id[w]) => i.lookup = DefaultBranch
        /\ i.fail_at = "branch_create" => i.new_id = FreshId(w, suffix)
        /\ i.new_id = DefaultBranch => ~Returned(DefaultBranch)
        /\ i.orphan => i.fail_at = "none" /\ i.new_id = FreshId(w, suffix)
        /\ faults + FaultCost(w, i.lookup, i.new_id, i.orphan, i.fail_at) <= MaxFaults}

\* the state a run r of _create_neon_branch for fixture f leaves behind; the
\* new remote branch is a copy of its parent at the time of the creation
CreateApply(w, f, i, r, parent) ==
    /\ faults' = faults + FaultCost(w, i.lookup, i.new_id, i.orphan, i.fail_at)
    /\ default_id' = [default_id EXCEPT ![w] = r.default_id]
    /\ calls' = [calls EXCEPT ![w] = @ \o r.calls]
    /\ env' = [env EXCEPT ![w] = r.env]
    /\ br' = [br EXCEPT ![w][f] = r.branch]
    /\ gen' = [gen EXCEPT ![w][f] = r.gen]
    /\ migrated' = IF r.created /\ i.new_id # DefaultBranch /\ parent \in migrated
                   THEN migrated \cup {i.new_id} ELSE migrated

\* (mutant) the variable is put back only when it had a value
restore_env_if_present(original_env_value, current) ==
    IF original_env_value.present THEN original_env_value ELSE current

\* the variable is put back: popped when it was absent, else its old value
restore_env(original_env_value, current) ==
    IF ~original_env_value.present THEN EnvAbsent ELSE original_env_value

\* (mutant) an error of the delete call leaves the finally block
branch_delete_guarded_raises(ok) == [warned |-> FALSE, raised |-> ~ok]

\* try: _retry_on_rate_limit(branch_delete) except Exception: warnings.warn
branch_delete_guarded(ok) == [warned |-> ~ok, raised |-> FALSE]

\* (mutant) the branch is deleted whatever --neon-keep-branches says
delete_wanted_always(keep_branches) == TRUE

\* if not keep_branches
delete_wanted(keep_branches) == ~keep_branches

\* the finally block of _create_neon_branch: restore the variable, then
\* delete the branch unless --neon-keep-branches; the delete call returns
\* (ok) or raises, after its retries or at once
create_neon_branch_finally(w, f) ==
    /\ env' = [env EXCEPT ![w] = restore_env(gen[w][f].original_env_value, @)]
    /\ IF delete_wanted(cfg.keep)
       THEN \E ok \in BOOLEAN :
               LET d == branch_delete_guarded(ok)
               IN  /\ ~ok => faults < MaxFaults
                   /\ faults' = IF ok THEN faults ELSE faults + 1
                   /\ calls' = [calls EXCEPT ![w] =
                                   Append(@, Call("branch_delete",
                                                  gen[w][f].branch_id, NoBranch))]
                   /\ reports' = [reports EXCEPT ![w] =
                                     IF d.warned
                                     THEN @ \cup {Report("delete_warning",
                                                         gen[w][f].branch_id,
                                                         "delete_error")}
                                     ELSE @]
                   /\ gen' = [gen EXCEPT ![w][f].st =
                                 IF d.raised THEN "raised" ELSE "closed"]
       ELSE /\ gen' = [gen EXCEPT ![w][f].st = "closed"]
            /\ UNCHANGED <<faults, calls, reports>>

\* ------------------------------------------------------------ test session
\* the fixtures a test requests, in set-up order
Needed(kind) ==
    IF kind = "shared" THEN <<"mb", "mig", "shared">>
    ELSE <<"mb", "mig", "sync", "reset">>

\* the first requested fixture that is not set up, "ready" if there is none
NextFx(w) ==
    LET need == Needed(cur[w])
        open == {n \in 1..Len(need) : st[w][need[n]] # "active"}
    IN  IF open = {} THEN "ready"
        ELSE need[CHOOSE n \in open : \A m \in open : n <= m]

\* xdist hands the next test of the queue to a worker; without xdist the
\* single process runs them all
TakeTest(w) ==
    /\ pc[w] = "idle"
    /\ todo > 0
    /\ cfg.xdist \/ w = 1
    /\ \E kind \in {"rw", "ro", "shared"} : cur' = [cur EXCEPT ![w] = kind]
    /\ todo' = todo - 1
    /\ pc' = [pc EXCEPT ![w] = "setup"]
    /\ UNCHANGED <<call_vars, retry_vars, reset_vars, cfg, readwrite_tests, outcome, reports, faults, shared_files, migrated, st, br, gen, is_creator,
                   follower_env, default_id, pre_fp, waited, env, calls>>

\* ---------------------------------------------------- _neon_migration_branch
\* xdist, under the file lock, the cache file exists: reuse the branch
neon_migration_branch_follower(w) ==
    /\ pc[w] = "setup" /\ NextFx(w) = "mb" /\ st[w].mb = "unset"
    /\ cfg.xdist
    /\ lock = 0
    /\ cache_file # NoCache
    /\ LET data == json_loads(cache_file)
           branch == dict_to_branch(data.branch)
       IN  /\ br' = [br EXCEPT ![w].mb = branch]
           /\ pre_fp' = [pre_fp EXCEPT ![w] = data.pre_migration_fingerprint]
           /\ follower_env' = [follower_env EXCEPT ![w] = env[w]]
           /\ env' = [env EXCEPT ![w] = EnvValue(branch.connection_string)]
    /\ is_creator' = [is_creator EXCEPT ![w] = FALSE]
    /\ st' = [st EXCEPT ![w].mb = "active"]
    /\ UNCHANGED <<call_vars, retry_vars, reset_vars, cfg, readwrite_tests, outcome, reports, todo, faults, shared_files, migrated, pc, cur, gen,
                   default_id, waited, calls>>

\* (mutant) the worker creates without looking for the cache file
neon_migration_branch_lock_nocheck(w) ==
    /\ pc[w] = "setup" /\ NextFx(w) = "mb" /\ st[w].mb = "unset"
    /\ cfg.xdist
    /\ lock = 0
    /\ lock' = w
    /\ is_creator' = [is_creator EXCEPT ![w] = TRUE]
    /\ st' = [st EXCEPT ![w].mb = "creating"]
    /\ UNCHANGED <<call_vars, retry_vars, reset_vars, cfg, readwrite_tests, outcome, reports, todo, faults, cache_file, migrations_done_file, migrated,
                   pc, cur, br, gen, follower_env, default_id, pre_fp, waited,
                   env, calls>>

\* xdist, the lock is taken and no cache file exists: this worker creates
neon_migration_branch_lock(w) ==
    /\ pc[w] = "setup" /\ NextFx(w) = "mb" /\ st[w].mb = "unset"
    /\ cfg.xdist
    /\ lock = 0
    /\ cache_file = NoCache
    /\ lock' = w
    /\ is_creator' = [is_creator EXCEPT ![w] = TRUE]
    /\ st' = [st EXCEPT ![w].mb = "creating"]
    /\ UNCHANGED <<call_vars, retry_vars, reset_vars, cfg, readwrite_tests, outcome, reports, todo, faults, cache_file, migrations_done_file, migrated,
                   pc, cur, br, gen, follower_env, default_id, pre_fp, waited,
                   env, calls>>

\* (mutant) the lock stays held when the with-block is left
lock_release_never(w) == lock

\* the with-block of FileLock is left: the lock is released, also by a raise
lock_release(w) == IF lock = w THEN 0 ELSE lock

\* next(branch_gen) of the creator (under the lock with xdist)
neon_migration_branch_create(w) ==
    /\ pc[w] = "setup" /\ NextFx(w) = "mb"
    /\ IF cfg.xdist THEN st[w].mb = "creating" /\ lock = w ELSE st[w].mb = "unset"
    /\ \E i \in CreateInputs(w, "-migrated") :
          LET r == create_neon_branch(w, NoBranch, i.lookup, i.new_id, i.orphan,
                                       i.fail_at)
          IN  /\ CreateApply(w, "mb", i, r, DefaultBranch)
              /\ st' = [st EXCEPT ![w].mb = IF r.status = "ok" THEN "created"
                                            ELSE r.status]
              /\ lock' = IF r.status = "ok" THEN lock ELSE lock_release(w)
    /\ is_creator' = [is_creator EXCEPT ![w] = TRUE]
    /\ UNCHANGED <<call_vars, retry_vars, reset_vars, cfg, readwrite_tests, outcome, reports, todo, cache_file, migrations_done_file, pc, cur,
                   follower_env, pre_fp, waited>>

\* _get_schema_fingerprint: () without a driver, else the schema's rows
get_schema_fingerprint(branch_id) ==
    IF ~cfg.driver THEN "empty"
    ELSE IF branch_id \in migrated /\ cfg.changes THEN "migrated" ELSE "base"

\* the creator captures the fingerprint and, with xdist, writes the cache
\* file and leaves the lock; a raise of the driver leaves it without a cache
neon_migration_branch_fingerprint(w) ==
    /\ pc[w] = "setup" /\ NextFx(w) = "mb" /\ st[w].mb = "created"
    /\ \E ok \in BOOLEAN :
          /\ ~ok => cfg.driver /\ faults < MaxFaults
          /\ faults' = IF ok THEN faults ELSE faults + 1
          /\ st' = [st EXCEPT ![w].mb = IF ok THEN "active" ELSE "fingerprint_error"]
          /\ pre_fp' = [pre_fp EXCEPT ![w] =
                           IF ok THEN get_schema_fingerprint(br[w].mb.branch_id) ELSE @]
          /\ cache_file' =
                IF ok /\ cfg.xdist
                THEN json_dumps([branch |-> branch_to_dict(br[w].mb),
                                 pre_migration_fingerprint |->
                                     get_schema_fingerprint(br[w].mb.branch_id)])
                ELSE cache_file
    /\ lock' = lock_release(w)
    /\ UNCHANGED <<call_vars, retry_vars, reset_vars, cfg, readwrite_tests, outcome, reports, todo, migrations_done_file, migrated, pc, cur, br, gen,
                   is_creator, follower_env, default_id, waited, env, calls>>

\* the finally block of a generator that was never resumed runs when the
\* interpreter collects it: at some later time, or never
generator_finalize(w) ==
    /\ st[w].mb = "fingerprint_error"
    /\ gen[w].mb.st = "yielded"
    /\ create_neon_branch_finally(w, "mb")
    /\ UNCHANGED <<call_vars, retry_vars, reset_vars, cfg, readwrite_tests, outcome, todo, shared_files, migrated, pc, cur, st, br,
                   is_creator, follower_env, default_id, pre_fp, waited>>

\* (mutant) every worker deletes the migration branch at teardown
neon_migration_branch_teardown_all(w) ==
    /\ pc[w] = "td_mb"
    /\ pc' = [pc EXCEPT ![w] = "done"]
    /\ IF st[w].mb # "active"
       THEN UNCHANGED <<st, env, calls, gen>>
       ELSE /\ st' = [st EXCEPT ![w].mb = "torn"]
            /\ env' = [env EXCEPT ![w] =
                          IF is_creator[w] THEN gen[w].mb.original_env_value
                          ELSE follower_env[w]]
            /\ calls' = [calls EXCEPT ![w] =
                            IF cfg.keep THEN @
                            ELSE Append(@, Call("branch_delete", br[w].mb.branch_id,
                                                NoBranch))]
            /\ gen' = [gen EXCEPT ![w].mb.st = IF is_creator[w] THEN "closed" ELSE @]
    /\ UNCHANGED <<call_vars, retry_vars, reset_vars, cfg, readwrite_tests, outcome, reports, todo, faults, shared_files, migrated, cur, br, is_creator,
                   follower_env, default_id, pre_fp, waited>>

\* (mutant) the migration branch is torn down before the fixtures that
\* depend on it
neon_migration_branch_teardown_early(w) ==
    /\ pc[w] \in {"td_reset", "td_mb"}
    /\ pc[w] = "td_reset" => st[w].mb = "active"
    /\ pc' = [pc EXCEPT ![w] = IF @ = "td_mb" THEN "done" ELSE @]
    /\ IF st[w].mb # "active"
       THEN UNCHANGED <<st, env, calls, gen, faults, reports>>
       ELSE /\ st' = [st EXCEPT ![w].mb = "torn"]
            /\ IF is_creator[w] /\ gen[w].mb.st = "yielded"
               THEN create_neon_branch_finally(w, "mb")
               ELSE /\ env' = [env EXCEPT ![w] =
                                 IF follower_env[w].present THEN follower_env[w]
                                 ELSE IF ~is_creator[w] THEN EnvAbsent ELSE @]
                    /\ UNCHANGED <<calls, gen, faults, reports>>
    /\ UNCHANGED <<call_vars, retry_vars, reset_vars, cfg, readwrite_tests, outcome, todo, shared_files, migrated, cur, br, is_creator,
                   follower_env, default_id, pre_fp, waited>>

\* the session teardown of _neon_migration_branch
neon_migration_branch_teardown(w) ==
    /\ pc[w] = "td_mb"
    /\ pc' = [pc EXCEPT ![w] = "done"]
    /\ IF st[w].mb # "active"
       THEN UNCHANGED <<st, env, calls, gen, faults, reports>>
       ELSE /\ st' = [st EXCEPT ![w].mb = "torn"]
            /\ IF is_creator[w] /\ gen[w].mb.st = "yielded"
               THEN create_neon_branch_finally(w, "mb")
               ELSE /\ env' = [env EXCEPT ![w] =
                                 IF follower_env[w].present THEN follower_env[w]
                                 ELSE IF ~is_creator[w] THEN EnvAbsent ELSE @]
                    /\ UNCHANGED <<calls, gen, faults, reports>>
    /\ UNCHANGED <<call_vars, retry_vars, reset_vars, cfg, readwrite_tests, outcome, todo, shared_files, migrated, cur, br, is_creator,
                   follower_env, default_id, pre_fp, waited>>

\* ----------------------------------------------------- neon_apply_migrations
\* the session fixture starts on every worker that set up the migration
\* branch; the default body returns the sentinel at once
neon_apply_migrations_begin(w) ==
    /\ pc[w] = "setup" /\ NextFx(w) = "mig" /\ st[w].mig = "unset"
    /\ st' = [st EXCEPT ![w].mig = IF cfg.overridden THEN "running" ELSE "active"]
    /\ UNCHANGED <<call_vars, retry_vars, reset_vars, cfg, readwrite_tests, outcome, reports, todo, faults, shared_files, migrated, pc, cur, br, gen,
                   is_creator, follower_env, default_id, pre_fp, waited, env, calls>>

\* the overriding body ends: the migrations are in the branch that the
\* environment variable names, or it raised
neon_apply_migrations_end(w) ==
    /\ pc[w] = "setup" /\ NextFx(w) = "mig" /\ st[w].mig = "running"
    /\ \E ok \in BOOLEAN :
          /\ ~ok => faults < MaxFaults
          /\ faults' = IF ok THEN faults ELSE faults + 1
          /\ st' = [st EXCEPT ![w].mig = IF ok THEN "active" ELSE "migration_error"]
          /\ migrated' = IF ok /\ (cfg.changes \/ cfg.data_only)
                         THEN migrated \cup {br[w].mb.branch_id} ELSE migrated
    /\ UNCHANGED <<call_vars, retry_vars, reset_vars, cfg, readwrite_tests, outcome, reports, todo, shared_files, pc, cur, br, gen, is_creator,
                   follower_env, default_id, pre_fp, waited, env, calls>>

\* ---------------------------------------------- _neon_migrations_synchronized
\* without xdist a passthrough; the creator writes the signal file
neon_migrations_synchronized_creator(w) ==
    /\ pc[w] = "setup" /\ NextFx(w) = "sync" /\ st[w].sync = "unset"
    /\ ~cfg.xdist \/ is_creator[w]
    /\ migrations_done_file' = (cfg.xdist \/ migrations_done_file)
    /\ st' = [st EXCEPT ![w].sync = "active"]
    /\ UNCHANGED <<call_vars, retry_vars, reset_vars, cfg, readwrite_tests, outcome, reports, todo, faults, lock, cache_file, migrated, pc, cur, br, gen,
                   is_creator, follower_env, default_id, pre_fp, waited, env, calls>>

\* (mutant) the follower does not wait for the signal file
neon_migrations_synchronized_follower_nowait(w) ==
    /\ pc[w] = "setup" /\ NextFx(w) = "sync" /\ st[w].sync = "unset"
    /\ cfg.xdist /\ ~is_creator[w]
    /\ st' = [st EXCEPT ![w].sync = "active"]
    /\ UNCHANGED <<call_vars, retry_vars, reset_vars, cfg, readwrite_tests, outcome, reports, todo, faults, shared_files, migrated, pc, cur, br, gen,
                   is_creator, follower_env, default_id, pre_fp, waited, env, calls>>

\* one round of the follower's wait loop: leave it when the signal file
\* exists, raise on timeout, else sleep one poll interval
neon_migrations_synchronized_follower(w) ==
    /\ pc[w] = "setup" /\ NextFx(w) = "sync" /\ st[w].sync = "unset"
    /\ cfg.xdist /\ ~is_creator[w]
    /\ IF migrations_done_file
       THEN st' = [st EXCEPT ![w].sync = "active"] /\ UNCHANGED waited
       ELSE IF waited[w] >= MaxPolls
       THEN st' = [st EXCEPT ![w].sync = "sync_timeout"] /\ UNCHANGED waited
       ELSE waited' = [waited EXCEPT ![w] = @ + 1] /\ UNCHANGED st
    /\ UNCHANGED <<call_vars, retry_vars, reset_vars, cfg, readwrite_tests, outcome, reports, todo, faults, shared_files, migrated, pc, cur, br, gen,
                   is_creator, follower_env, default_id, pre_fp, env, calls>>

\* ---------------------------------------------------- _neon_branch_for_reset
\* schema_changed of _neon_branch_for_reset
schema_changed(w) ==
    LET migrations_defined == cfg.overridden
        pre_fingerprint == pre_fp[w]
    IN  IF migrations_defined /\ pre_fingerprint # "empty"
        THEN pre_fingerprint # get_schema_fingerprint(br[w].mb.branch_id)
        ELSE migrations_defined

\* a child of the migration branch when the schema changed or under xdist,
\* else the migration branch itself
neon_branch_for_reset(w) ==
    /\ pc[w] = "setup" /\ NextFx(w) = "reset" /\ st[w].reset = "unset"
    /\ IF schema_changed(w) \/ cfg.xdist
       THEN \E i \in CreateInputs(w, "-test") :
               LET r == create_neon_branch(w, br[w].mb.branch_id, i.lookup,
                                           i.new_id, i.orphan, i.fail_at)
               IN  /\ CreateApply(w, "reset", i, r, br[w].mb.branch_id)
                   /\ st' = [st EXCEPT ![w].reset = IF r.status = "ok" THEN "active"
                                                    ELSE r.status]
       ELSE /\ br' = [br EXCEPT ![w].reset = br[w].mb]
            /\ st' = [st EXCEPT ![w].reset = "active"]
            /\ UNCHANGED <<faults, default_id, calls, env, gen, migrated>>
    /\ UNCHANGED <<call_vars, retry_vars, reset_vars, cfg, readwrite_tests, outcome, reports, todo, shared_files, pc, cur, is_creator, follower_env,
                   pre_fp, waited>>

neon_branch_for_reset_teardown(w) ==
    /\ pc[w] = "td_reset"
    /\ pc' = [pc EXCEPT ![w] = "td_mb"]
    /\ IF st[w].reset # "active"
       THEN UNCHANGED <<st, env, calls, gen, faults, reports>>
       ELSE /\ st' = [st EXCEPT ![w].reset = "torn"]
            /\ IF gen[w].reset.st = "yielded"
               THEN create_neon_branch_finally(w, "reset")
               ELSE UNCHANGED <<env, calls, gen, faults, reports>>
    /\ UNCHANGED <<call_vars, retry_vars, reset_vars, cfg, readwrite_tests, outcome, todo, shared_files, migrated, cur, br, is_creator,
                   follower_env, default_id, pre_fp, waited>>

\* -------------------------------------------------------- neon_branch_shared
neon_branch_shared(w) ==
    /\ pc[w] = "setup" /\ NextFx(w) = "shared" /\ st[w].shared = "unset"
    /\ \E i \in CreateInputs(w, "-shared") :
          LET r == create_neon_branch(w, br[w].mb.branch_id, i.lookup,
                                      i.new_id, i.orphan, i.fail_at)
          IN  /\ CreateApply(w, "shared", i, r, br[w].mb.branch_id)
              /\ st' = [st EXCEPT ![w].shared = IF r.status = "ok" THEN "active"
                                                ELSE r.status]
    /\ UNCHANGED <<call_vars, retry_vars, reset_vars, cfg, readwrite_tests, outcome, reports, todo, shared_files, pc, cur, is_creator, follower_env,
                   pre_fp, waited>>

\* no test is left: the worker tears its fixtures down, the module-scoped
\* one first, then the session-scoped ones in reverse set-up order
neon_branch_shared_teardown(w) ==
    /\ pc[w] = "idle"
    /\ todo = 0
    /\ cfg.xdist \/ w = 1
    /\ pc' = [pc EXCEPT ![w] = "td_reset"]
    /\ IF st[w].shared # "active"
       THEN UNCHANGED <<st, env, calls, gen, faults, reports>>
       ELSE /\ st' = [st EXCEPT ![w].shared = "torn"]
            /\ create_neon_branch_finally(w, "shared")
    /\ UNCHANGED <<call_vars, retry_vars, reset_vars, cfg, readwrite_tests, outcome, todo, shared_files, migrated, cur, br, is_creator,
                   follower_env, default_id, pre_fp, waited>>

\* --------------------------------------------------------------------- tests
\* a requested fixture raised (now or earlier in the session): the test
\* errors at set-up
TestError(w) ==
    /\ pc[w] = "setup"
    /\ NextFx(w) # "ready" /\ st[w][NextFx(w)] \in Errors
    /\ pc' = [pc EXCEPT ![w] = "idle"]
    /\ cur' = [cur EXCEPT ![w] = "none"]
    /\ UNCHANGED <<call_vars, retry_vars, reset_vars, cfg, readwrite_tests, outcome, reports, todo, faults, shared_files, migrated, st, br, gen,
                   is_creator, follower_env, default_id, pre_fp, waited, env, calls>>

\* (mutant) neon_branch_readwrite does not look at the parent
readwrite_setup_fails_never(branch) == FALSE

\* neon_branch_readwrite before its yield: if not branch.parent_id: pytest.fail
readwrite_setup_fails(branch) == branch.parent_id = NoBranch

\* the function-scoped fixture is set up and the test body starts;
\* neon_branch_readwrite fails a branch that has no parent, and then the
\* body does not run
TestStart(w) ==
    /\ pc[w] = "setup"
    /\ NextFx(w) = "ready"
    /\ IF cur[w] = "rw" /\ readwrite_setup_fails(br[w].reset)
       THEN /\ pc' = [pc EXCEPT ![w] = "idle"]
            /\ cur' = [cur EXCEPT ![w] = "none"]
            /\ reports' = [reports EXCEPT ![w] =
                              @ \cup {Report("no_parent", br[w].reset.branch_id,
                                             "none")}]
       ELSE /\ pc' = [pc EXCEPT ![w] = "testing"]
            /\ UNCHANGED <<cur, reports>>
    /\ UNCHANGED <<call_vars, retry_vars, reset_vars, cfg, readwrite_tests, outcome, todo, faults, shared_files, migrated, st, br, gen,
                   is_creator, follower_env, default_id, pre_fp, waited, env, calls>>

\* the test body ends: the test passed or failed
TestEnd(w) ==
    /\ pc[w] = "testing"
    /\ \E result \in {"passed", "failed"} :
          outcome' = [outcome EXCEPT ![w] = result]
    /\ IF cur[w] = "rw"
       THEN /\ pc' = [pc EXCEPT ![w] = "fn_teardown"]
            /\ readwrite_tests' = [readwrite_tests EXCEPT ![w] = @ + 1]
            /\ UNCHANGED cur
       ELSE /\ pc' = [pc EXCEPT ![w] = "idle"]
            /\ cur' = [cur EXCEPT ![w] = "none"]
            /\ UNCHANGED readwrite_tests
    /\ UNCHANGED <<call_vars, retry_vars, reset_vars, cfg, reports, todo, faults, shared_files, migrated, st, br, gen,
                   is_creator, follower_env, default_id, pre_fp, waited, env, calls>>

\* (mutant) the restore request is sent for the parent
reset_target_parent(branch) == branch.parent_id

\* the branch a restore request is sent for
reset_target(branch) == branch.branch_id

\* the ways _reset_branch_to_parent raises: the restore request's error,
\* its rate-limit retries exhausted, an operation reported failed, the
\* operations still pending at the timeout
ResetErrors == {"restore_error", "rate_limit_exhausted", "operation_failed",
                "operation_timeout"}

\* (mutant) a reset error is caught and dropped
reset_guarded_swallows(branch, result) == {}

\* try: _reset_branch_to_parent(...) except Exception as e: pytest.fail(...)
reset_guarded(branch, result) ==
    IF result \in ResetErrors
    THEN {Report("dirty_state", branch.branch_id, result)} ELSE {}

\* (mutant) the branch is reset only after a test that passed
reset_wanted_if_passed(api_key, result) == api_key /\ result = "passed"

\* after the yield of neon_branch_readwrite: if api_key
reset_wanted(api_key, result) == api_key

\* the teardown of neon_branch_readwrite: _reset_branch_to_parent, which
\* returns when the restore is complete or raises
neon_branch_readwrite_teardown(w) ==
    /\ pc[w] = "fn_teardown"
    /\ LET branch == br[w].reset
       IN  IF reset_wanted(TRUE, outcome[w])
           THEN /\ calls' = [calls EXCEPT ![w] =
                                Append(@, Call("restore", reset_target(branch),
                                               branch.parent_id))]
                /\ \E result \in {"ok"} \cup ResetErrors :
                      /\ result # "ok" => faults < MaxFaults
                      /\ faults' = IF result = "ok" THEN faults ELSE faults + 1
                      /\ reports' = [reports EXCEPT ![w] =
                                        @ \cup reset_guarded(branch, result)]
                      /\ migrated' =
                            IF result # "ok" THEN migrated
                            ELSE IF branch.parent_id \in migrated
                            THEN migrated \cup {reset_target(branch)}
                            ELSE migrated \ {reset_target(branch)}
           ELSE UNCHANGED <<calls, faults, reports, migrated>>
    /\ pc' = [pc EXCEPT ![w] = "idle"]
    /\ cur' = [cur EXCEPT ![w] = "none"]
    /\ UNCHANGED <<call_vars, retry_vars, reset_vars, cfg, readwrite_tests, outcome, todo, shared_files, st, br, gen, is_creator, follower_env,
                   default_id, pre_fp, waited, env>>

Next ==
    \E w \in Workers :
        \/ TakeTest(w)
        \/ neon_migration_branch_follower(w)
        \/ neon_migration_branch_lock(w)
        \/ neon_migration_branch_create(w)
        \/ neon_migration_branch_fingerprint(w)
        \/ generator_finalize(w)
        \/ neon_apply_migrations_begin(w)
        \/ neon_apply_migrations_end(w)
        \/ neon_migrations_synchronized_creator(w)
        \/ neon_migrations_synchronized_follower(w)
        \/ neon_branch_for_reset(w)
        \/ neon_branch_shared(w)
        \/ TestError(w)
        \/ TestStart(w)
        \/ TestEnd(w)
        \/ neon_branch_readwrite_teardown(w)
        \/ neon_branch_shared_teardown(w)
        \/ neon_branch_for_reset_teardown(w)
        \/ neon_migration_branch_teardown(w)

Spec == Init /\ [][Next]_vars

\* ------------------------------------------------- _reset_branch_to_parent
\* One worker's tests that use neon_branch_readwrite on the branch handed to
\* the fixture, with _reset_branch_to_parent and _wait_for_operations step
\* by step; the function is also called directly.  Times are in 0.1 s.
lifecycle_vars == <<cfg, todo, faults, lock, cache_file, migrations_done_file,
                    migrated, pc, cur, st, br, gen, is_creator, follower_env,
                    default_id, pre_fp, waited, env, calls, outcome,
                    readwrite_tests, reports>>

max_wait_seconds == 600     \* max_wait_seconds = 60
poll_interval == 5          \* poll_interval = 0.5
first_poll_delay == 1       \* time.sleep(0.1)

MaxOps == 2                 \* operations in one restore response

\* the status of an operation; "running" is any status the code does not name
OpStatuses == {"running", "finished", "skipped", "cancelled", "failed"}

\* what one status poll gives: a status, a request error that is not a rate
\* limit, or the rate-limit retries exhausted
PollResults == OpStatuses \cup {"network_error", "rate_limit_exhausted"}

InitReset ==
    /\ CallsIdle
    /\ RetryIdle
    /\ cfg = CHOOSE c \in Configs : ~c.xdist /\ ~c.keep /\ ~c.overridden
                                     /\ ~c.driver /\ ~c.prior
    /\ todo = 0
    /\ WorkersIdle
    /\ rs_pc = "start"
    /\ rs_entry = "none"
    /\ \E parent_id \in {FreshId(1, "-migrated"), NoBranch} :
          rs_branch = NeonBranch(FreshId(1, "-test"), ProjectId,
                                 ConnectionString(FreshId(1, "-test")),
                                 FreshId(1, "-test"), parent_id)
    /\ rs_requests = {}
    /\ rs_seen = <<>>
    /\ rs_pending = {}
    /\ rs_waited = 0
    /\ rs_error = "none"
    /\ rs_detail = NoDetail
    /\ rs_poll_errors = {}
    /\ rs_reports = {}

\* neon_branch_readwrite up to its yield
readwrite_setup ==
    /\ rs_pc = "start"
    /\ rs_entry' = "fixture"
    /\ rs_requests' = {}
    /\ IF readwrite_setup_fails(rs_branch)
       THEN /\ rs_pc' = "start"
            /\ rs_reports' = {Report("no_parent", rs_branch.branch_id, "none")}
       ELSE /\ rs_pc' = "body"
            /\ rs_reports' = {}
    /\ UNCHANGED <<call_vars, retry_vars, lifecycle_vars, rs_branch, rs_seen,
                   rs_pending, rs_waited, rs_error, rs_detail, rs_poll_errors>>

\* the test body runs and ends
readwrite_body ==
    /\ rs_pc = "body"
    /\ rs_pc' = "teardown"
    /\ UNCHANGED <<call_vars, retry_vars, lifecycle_vars, rs_entry, rs_branch,
                   rs_requests, rs_seen, rs_pending, rs_waited, rs_error,
                   rs_detail, rs_poll_errors, rs_reports>>

\* if not branch.parent_id: raise RuntimeError
reset_parent_missing(branch) == branch.parent_id = NoBranch

\* (mutant) an operation counts as complete whatever its status
operation_complete_always(status) == TRUE

\* the statuses _wait_for_operations does not wait for, in the restore
\* response
operation_complete(status) == status \in {"finished", "skipped"}

\* _reset_branch_to_parent from its entry to the loop of
\* _wait_for_operations: the parent check, the restore request (through
\* _retry_on_rate_limit) and the operations it returns
reset_branch_to_parent_begin ==
    /\ rs_pc \in {"teardown", "start"}
    /\ rs_entry' = IF rs_pc = "start" THEN "direct" ELSE "fixture"
    /\ rs_waited' = 0
    /\ rs_detail' = NoDetail
    /\ rs_poll_errors' = {}
    /\ IF reset_parent_missing(rs_branch)
       THEN /\ rs_pc' = "raised"
            /\ rs_error' = "no_parent"
            /\ rs_seen' = <<>>
            /\ rs_pending' = {}
            /\ rs_requests' = {}
       ELSE /\ rs_requests' = {"restore"}
            /\ \E result \in {"ok", "restore_error", "rate_limit_exhausted"} :
                  IF result # "ok"
                  THEN /\ rs_pc' = "raised"
                       /\ rs_error' = result
                       /\ rs_seen' = <<>>
                       /\ rs_pending' = {}
                  ELSE \E n \in 0..MaxOps : \E operations \in [1..n -> OpStatuses] :
                          LET pending_op_ids ==
                                 {op \in 1..n : ~operation_complete(operations[op])}
                          IN  /\ rs_seen' = operations
                              /\ rs_pending' = pending_op_ids
                              /\ rs_error' = "none"
                              /\ rs_pc' = IF pending_op_ids = {} THEN "returned"
                                          ELSE "waiting"
    /\ UNCHANGED <<call_vars, retry_vars, lifecycle_vars, rs_branch, rs_reports>>

\* the polled statuses that take an operation out of the pending list
poll_done(status) == status \in {"finished", "skipped", "cancelled"}

\* err = op_data.get("error", "unknown error")
operation_error(op_data) ==
    IF op_data.has_error THEN op_data.error ELSE "unknown error"

\* (mutant) no except clause: a request error of a poll leaves the function
poll_raises_request_errors(result) ==
    CASE result = "failed" -> "operation_failed"
      [] result = "rate_limit_exhausted" -> "rate_limit_exhausted"
      [] result = "network_error" -> "request_error"
      [] OTHER -> "none"

\* the error one status poll makes _wait_for_operations raise, "none" when
\* it raises none: RuntimeError for a failed operation, NeonRateLimitError
\* out of _retry_on_rate_limit; a requests.RequestException is caught
poll_raises(result) ==
    CASE result = "failed" -> "operation_failed"
      [] result = "rate_limit_exhausted" -> "rate_limit_exhausted"
      [] OTHER -> "none"

\* after the loop of _wait_for_operations: if pending_op_ids: raise
wait_timed_out(pending_op_ids, waited_now) == pending_op_ids # {}

\* one round of the loop of _wait_for_operations: sleep, then poll every
\* pending operation in order (each through _retry_on_rate_limit); a failed
\* status or exhausted retries raise at once, a request error keeps the
\* operation pending; then the loop condition and the timeout check
wait_for_operations_poll ==
    /\ rs_pc = "waiting"
    /\ \E results \in [rs_pending -> PollResults] : \E has_error \in BOOLEAN :
          LET op_data == [has_error |-> has_error, error |-> "provider_error"]
              raising == {op \in rs_pending : poll_raises(results[op]) # "none"}
              stop == IF raising = {} THEN MaxOps + 2
                      ELSE CHOOSE op \in raising : \A o \in raising : op <= o
              polled == {op \in rs_pending : op <= stop}
              still_pending == {op \in polled : ~poll_done(results[op])}
              waited_now == rs_waited + (IF rs_waited = 0 THEN first_poll_delay
                                         ELSE poll_interval)
          IN  /\ \A op \in rs_pending \ polled : results[op] = "running"
              /\ has_error \/ (raising # {} /\ results[stop] = "failed")
              /\ rs_waited' = waited_now
              /\ rs_poll_errors' = {op \in polled : results[op] = "network_error"}
              /\ rs_requests' = rs_requests \cup {"operation_status"}
              /\ rs_seen' = [op \in DOMAIN rs_seen |->
                                IF op \in polled /\ results[op] \in OpStatuses
                                THEN results[op] ELSE rs_seen[op]]
              /\ IF raising # {}
                 THEN /\ rs_pc' = "raised"
                      /\ rs_error' = poll_raises(results[stop])
                      /\ rs_detail' = IF results[stop] = "failed"
                                      THEN [NoDetail EXCEPT
                                               !.op = stop,
                                               !.error = operation_error(op_data)]
                                      ELSE NoDetail
                      /\ UNCHANGED rs_pending
                 ELSE /\ rs_pending' = still_pending
                      /\ IF still_pending # {} /\ waited_now < max_wait_seconds
                         THEN UNCHANGED <<rs_pc, rs_error, rs_detail>>
                         ELSE IF wait_timed_out(still_pending, waited_now)
                         THEN /\ rs_pc' = "raised"
                              /\ rs_error' = "operation_timeout"
                              /\ rs_detail' = [NoDetail EXCEPT
                                                  !.pending_op_ids = still_pending]
                         ELSE /\ rs_pc' = "returned"
                              /\ UNCHANGED <<rs_error, rs_detail>>
    /\ UNCHANGED <<call_vars, retry_vars, lifecycle_vars, rs_entry, rs_branch, rs_reports>>

\* _reset_branch_to_parent has returned or raised: after the yield of the
\* fixture a raise becomes pytest.fail; a direct caller gets the raise.  The
\* next test can start; rs_seen and rs_error keep what the reset left.
reset_branch_to_parent_end ==
    /\ rs_pc \in {"returned", "raised"}
    /\ rs_pc' = "start"
    /\ rs_reports' = IF rs_entry = "fixture"
                     THEN rs_reports \cup reset_guarded(rs_branch, rs_error)
                     ELSE rs_reports
    /\ rs_pending' = {}
    /\ rs_waited' = 0
    /\ rs_poll_errors' = {}
    /\ UNCHANGED <<call_vars, retry_vars, lifecycle_vars, rs_entry, rs_branch,
                   rs_requests, rs_seen, rs_error, rs_detail>>

NextReset ==
    \/ readwrite_setup
    \/ readwrite_body
    \/ reset_branch_to_parent_begin
    \/ wait_for_operations_poll
    \/ reset_branch_to_parent_end

SpecReset == InitReset /\ [][NextReset]_vars

\* ------------------------------------------------------ _is_rate_limit_error
\* A message is the sequence of its characters.
ascii_uppercase ==
    <<"A", "B", "C", "D", "E", "F", "G", "H", "I", "J", "K", "L", "M",
      "N", "O", "P", "Q", "R", "S", "T", "U", "V", "W", "X", "Y", "Z">>
ascii_lowercase ==
    <<"a", "b", "c", "d", "e", "f", "g", "h", "i", "j", "k", "l", "m",
      "n", "o", "p", "q", "r", "s", "t", "u", "v", "w", "x", "y", "z">>

\* the indicators looked for in the message of a NeonAPIError
Text429 == <<"4", "2", "9">>
TextRateLimit ==
    <<"r", "a", "t", "e", " ", "l", "i", "m", "i", "t">>
TextTooManyRequests ==
    <<"t", "o", "o", " ", "m", "a", "n", "y", " ", "r", "e", "q", "u",
      "e", "s", "t", "s">>

\* messages of provider errors
RateLimitExceeded ==
    <<"R", "a", "t", "e", " ", "l", "i", "m", "i", "t", " ", "e", "x",
      "c", "e", "e", "d", "e", "d">>
TooManyConnections ==
    <<"T", "o", "o", " ", "m", "a", "n", "y", " ", "c", "o", "n", "n",
      "e", "c", "t", "i", "o", "n", "s", " ", "t", "o", " ", "d", "a",
      "t", "a", "b", "a", "s", "e">>
InternalServerError ==
    <<"I", "n", "t", "e", "r", "n", "a", "l", " ", "s", "e", "r", "v",
      "e", "r", " ", "e", "r", "r", "o", "r">>

\* (mutant) the message is searched as written
str_lower_identity(text) == text

\* str.lower()
str_lower(text) ==
    [i \in 1..Len(text) |->
        IF \E n \in 1..26 : ascii_uppercase[n] = text[i]
        THEN ascii_lowercase[CHOOSE n \in 1..26 : ascii_uppercase[n] = text[i]]
        ELSE text[i]]

\* needle in text
str_contains(needle, text) ==
    \E i \in 0..(Len(text) - Len(needle)) :
        SubSeq(text, i + 1, i + Len(needle)) = needle

\* ---------------------------------------------------- _retry_on_rate_limit
\* One call of _retry_on_rate_limit(operation, ...).  Times are in ms,
\* factors and random.random() in thousandths.
RATE_LIMIT_BASE_DELAY == 4000
RATE_LIMIT_MAX_TOTAL_DELAY == 90000
RATE_LIMIT_JITTER_FACTOR == 250
RATE_LIMIT_MAX_ATTEMPTS == 10
MinRetryAfter == 100        \* max(retry_after, 0.1)

RetryParams(base_delay, max_total_delay, jitter_factor, max_attempts) ==
    [base_delay |-> base_delay, max_total_delay |-> max_total_delay,
     jitter_factor |-> jitter_factor, max_attempts |-> max_attempts]

\* the defaults, and the arguments other callers pass
RetryArguments ==
    {RetryParams(RATE_LIMIT_BASE_DELAY, RATE_LIMIT_MAX_TOTAL_DELAY,
                 RATE_LIMIT_JITTER_FACTOR, RATE_LIMIT_MAX_ATTEMPTS),
     RetryParams(10000, 25000, RATE_LIMIT_JITTER_FACTOR, RATE_LIMIT_MAX_ATTEMPTS),
     RetryParams(100, 1000000, RATE_LIMIT_JITTER_FACTOR, 3)}

\* values of random.random(), in [0, 1)
Randoms == {0, 20, 500, 980}

Headers == {NoHeader, [kind |-> "empty", value |-> 0],
            [kind |-> "text", value |-> 0]}
               \cup {[kind |-> "number", value |-> v] : v \in {-5000, 0, 5000}}

\* the errors operation() raises; NeonAPIError carries no response
RaisedErrors ==
    {Error("HTTPError", TRUE, 429, h, <<>>) : h \in Headers}
    \cup {Error("HTTPError", TRUE, 500, NoHeader, <<>>),
          Error("HTTPError", FALSE, 0, NoHeader, <<>>)}
    \cup {Error("NeonAPIError", FALSE, 0, NoHeader, t) :
              t \in {RateLimitExceeded, TooManyConnections}}

\* the values operation() returns
ReturnedValues == {"value_a", "value_b"}

\* raise NeonRateLimitError(...) from e
NeonRateLimitError ==
    Error("NeonRateLimitError", FALSE, 0, NoHeader, RateLimitExceeded)

\* "429" in text or "rate limit" in text or "too many requests" in text
has_rate_limit_text(error_text) ==
    \/ str_contains(Text429, error_text)
    \/ str_contains(TextRateLimit, error_text)
    \/ str_contains(TextTooManyRequests, error_text)

_is_rate_limit_error(exc) ==
    IF exc.type = "NeonAPIError" THEN has_rate_limit_text(str_lower(exc.text))
    ELSE IF exc.type = "HTTPError" THEN exc.response /\ exc.status = 429
    ELSE FALSE

\* _get_retry_after_from_error: the header as a number, or none
NoHint == [given |-> FALSE, value |-> 0]
_get_retry_after_from_error(exc) ==
    IF exc.type \in {"HTTPError", "NeonAPIError"} /\ exc.response
       /\ exc.header.kind = "number"
    THEN [given |-> TRUE, value |-> exc.header.value]
    ELSE NoHint

RECURSIVE Pow2(_)
Pow2(n) == IF n = 0 THEN 1 ELSE 2 * Pow2(n - 1)

\* (mutant) the delay grows linearly
_calculate_retry_delay_linear(attempt, base_delay, jitter_factor, random) ==
    LET delay == base_delay * (attempt + 1)
        jitter == (delay * ((jitter_factor * (2 * random - 1000)) \div 1000))
                      \div 1000
    IN  delay + jitter

\* (mutant) the jitter is twice as wide
_calculate_retry_delay_wide_jitter(attempt, base_delay, jitter_factor, random) ==
    LET delay == base_delay * Pow2(attempt)
        jitter == (delay * ((2 * jitter_factor * (2 * random - 1000)) \div 1000))
                      \div 1000
    IN  delay + jitter

\* base_delay * 2^attempt, plus or minus jitter
_calculate_retry_delay(attempt, base_delay, jitter_factor, random) ==
    LET delay == base_delay * Pow2(attempt)
        jitter == (delay * ((jitter_factor * (2 * random - 1000)) \div 1000))
                      \div 1000
    IN  delay + jitter

InitRetry ==
    /\ CallsIdle
    /\ cfg = CHOOSE c \in Configs : ~c.xdist /\ ~c.keep /\ ~c.overridden
                                     /\ ~c.driver /\ ~c.prior
    /\ todo = 0
    /\ WorkersIdle
    /\ ResetIdle
    /\ rt_operation = NoOutcome
    /\ rt_result = NoOutcome
    /\ rt_pc = "call"
    /\ rt_params \in RetryArguments
    /\ rt_attempt = 0
    /\ rt_total_delay = 0
    /\ rt_invocations = 0
    /\ rt_sleeps = 0
    /\ rt_last_sleep = NoSleep
    /\ rt_rate_limited = 0
    /\ rt_hinted = FALSE
    /\ rt_cause = "none"

\* (mutant) the attempt cap is checked one call late
attempts_exhausted_late(attempt, max_attempts) == attempt > max_attempts

\* if attempt >= max_attempts
attempts_exhausted(attempt, max_attempts) == attempt >= max_attempts

\* (mutant) the hinted delay is slept as given
hinted_delay_raw(retry_after) == retry_after

\* delay = max(retry_after, 0.1)
hinted_delay(retry_after) ==
    IF retry_after > MinRetryAfter THEN retry_after ELSE MinRetryAfter

\* (mutant) the total cap looks only at the time already slept
total_delay_exceeded_after(total_delay, delay, max_total_delay) ==
    total_delay > max_total_delay

\* if total_delay + delay > max_total_delay
total_delay_exceeded(total_delay, delay, max_total_delay) ==
    total_delay + delay > max_total_delay

\* (mutant) every error leaves as NeonRateLimitError
reraise_wrapped(e) == NeonRateLimitError

\* the bare raise of the else branch: the error in flight
reraise(e) == e

\* one round of the loop: operation() returns
retry_on_rate_limit_return ==
    /\ rt_pc = "call"
    /\ rt_invocations' = rt_invocations + 1
    /\ \E value \in ReturnedValues :
          /\ rt_operation' = ReturnedValue(value)
          /\ rt_result' = ReturnedValue(value)
    /\ rt_pc' = "returned"
    /\ UNCHANGED <<call_vars, lifecycle_vars, reset_vars, rt_params, rt_attempt,
                   rt_total_delay, rt_sleeps, rt_last_sleep, rt_rate_limited, rt_hinted,
                   rt_cause>>

\* one round of the loop: operation() raises e
retry_on_rate_limit_except ==
    /\ rt_pc = "call"
    /\ rt_invocations' = rt_invocations + 1
    /\ \E e \in RaisedErrors : \E random \in Randoms :
          /\ rt_operation' = RaisedError(e)
          /\ IF ~_is_rate_limit_error(e)
             THEN /\ rt_pc' = "raised"
                  /\ rt_result' = RaisedError(reraise(e))
                  /\ UNCHANGED <<rt_attempt, rt_total_delay, rt_sleeps, rt_last_sleep,
                                 rt_rate_limited, rt_hinted, rt_cause>>
             ELSE LET retry_after == _get_retry_after_from_error(e)
                      delay == IF retry_after.given
                               THEN hinted_delay(retry_after.value)
                               ELSE _calculate_retry_delay(rt_attempt,
                                        rt_params.base_delay,
                                        rt_params.jitter_factor, random)
                  IN  /\ rt_rate_limited' = rt_rate_limited + 1
                      /\ rt_hinted' = (rt_hinted \/ retry_after.given)
                      /\ IF total_delay_exceeded(rt_total_delay, delay,
                                                 rt_params.max_total_delay)
                         THEN /\ rt_pc' = "raised"
                              /\ rt_result' = RaisedError(NeonRateLimitError)
                              /\ rt_cause' = "max_total_delay"
                              /\ UNCHANGED <<rt_attempt, rt_total_delay, rt_sleeps,
                                             rt_last_sleep>>
                         ELSE /\ rt_attempt' = rt_attempt + 1
                              /\ IF attempts_exhausted(rt_attempt + 1,
                                                       rt_params.max_attempts)
                                 THEN /\ rt_pc' = "raised"
                                      /\ rt_result' = RaisedError(NeonRateLimitError)
                                      /\ rt_cause' = "max_attempts"
                                      /\ UNCHANGED <<rt_total_delay, rt_sleeps,
                                                     rt_last_sleep>>
                                 ELSE /\ rt_sleeps' = rt_sleeps + 1
                                      /\ rt_last_sleep' =
                                            [delay |-> delay,
                                             hinted |-> retry_after.given,
                                             attempt |-> rt_attempt]
                                      /\ rt_total_delay' = rt_total_delay + delay
                                      /\ UNCHANGED <<rt_pc, rt_cause, rt_result>>
    /\ UNCHANGED <<call_vars, lifecycle_vars, reset_vars, rt_params>>

NextRetry ==
    \/ retry_on_rate_limit_return
    \/ retry_on_rate_limit_except

SpecRetry == InitRetry /\ [][NextRetry]_vars

\* the loop is sequential code and every sleep ends: it always takes its next step
SpecRetryLive == SpecRetry /\ WF_vars(NextRetry)

\* ------------------------------------------ _is_rate_limit_error, one call
\* the exceptions _is_rate_limit_error is called with
Messages ==
    LET MessagePrefixes == {<<>>, <<"E", "r", "r", "o", "r", ":", " ">>}
        MessageCores ==
        {<<>>, Text429, TextRateLimit, TextTooManyRequests,
         <<"R", "a", "t", "e", " ", "L", "i", "m", "i", "t">>,
         <<"R", "A", "T", "E", " ", "L", "I", "M", "I", "T">>,
         <<"4", "2", "9", " ", "T", "o", "o", " ", "M", "a", "n", "y", " ", "R", "e", "q", "u", "e", "s", "t", "s">>,
         <<"T", "o", "o", " ", "m", "a", "n", "y", " ", "r", "e", "q", "u", "e", "s", "t", "s">>,
         <<"T", "O", "O", " ", "M", "A", "N", "Y", " ", "R", "E", "Q", "U", "E", "S", "T", "S">>,
         <<"r", "a", "t", "e", "l", "i", "m", "i", "t">>,
         <<"r", "a", "t", "e", "-", "l", "i", "m", "i", "t">>,
         <<"t", "o", "o", " ", "m", "a", "n", "y", " ", "r", "o", "w", "s">>,
         <<"4", "2", " ", "9">>,
         TooManyConnections, InternalServerError}
        MessageSuffixes ==
            {<<>>, <<" ", "e", "x", "c", "e", "e", "d", "e", "d">>, <<" ", "(", "c", "o", "d", "e", " ", "4", "2", "9", "0", ")">>}
    IN  {p \o c \o x : p \in MessagePrefixes, c \in MessageCores,
                       x \in MessageSuffixes}

ClassifiedExceptions ==
    {Error("NeonAPIError", FALSE, 0, NoHeader, t) : t \in Messages}
    \cup {Error("NeonAPIError", TRUE, 429, NoHeader, InternalServerError)}
    \cup {Error("HTTPError", TRUE, status, NoHeader, t) :
              status \in {200, 428, 429, 430, 500, 503},
              t \in {<<>>, Text429, RateLimitExceeded}}
    \cup {Error("HTTPError", FALSE, 0, NoHeader, t) :
              t \in {<<>>, Text429, RateLimitExceeded}}
    \cup {Error(type, response, 429, NoHeader, t) :
              type \in {"ValueError", "ConnectionError"},
              response \in BOOLEAN, t \in {<<>>, Text429, RateLimitExceeded}}

InitClassify ==
    /\ SessionIdle
    /\ ResetIdle
    /\ RetryIdle
    /\ UnitsIdle
    /\ ConfigIdle /\ SetupIdle /\ NameIdle /\ EndpointIdle /\ MigrationWaitIdle
    /\ cl_pc = "call"
    /\ cl_exc \in ClassifiedExceptions
    /\ cl_result = FALSE

is_rate_limit_error_call ==
    /\ cl_pc = "call"
    /\ cl_result' = _is_rate_limit_error(cl_exc)
    /\ cl_pc' = "returned"
    /\ UNCHANGED <<lifecycle_vars, reset_vars, retry_vars, unit_vars, cl_exc, config_vars,
                   setup_vars, name_vars, endpoint_vars, migration_wait_vars>>

NextClassify == is_rate_limit_error_call

SpecClassify == InitClassify /\ [][NextClassify]_vars

\* ------------------------------------- _create_neon_branch, the endpoint wait
\* Times are in 0.1 s.
endpoint_max_wait_seconds == 600     \* max_wait_seconds = 60
endpoint_poll_interval == 5          \* poll_interval = 0.5

\* endpoint.current_state
EndpointStates == {"init", "idle", "active"}

\* what one endpoint status request gives, through _retry_on_rate_limit: a
\* state, the rate-limit retries exhausted, or another API error
EndpointAnswers == EndpointStates \cup {"rate_limit_exhausted", "api_error"}

InitEndpoint ==
    /\ SessionIdle
    /\ ResetIdle
    /\ RetryIdle
    /\ UnitsIdle
    /\ ClassifyIdle /\ ConfigIdle /\ SetupIdle /\ NameIdle /\ MigrationWaitIdle
    /\ ew_pc = "poll"
    /\ ew_waited = 0
    /\ ew_polls = 0
    /\ ew_state = "none"

\* (mutant) the wait has no timeout
endpoint_timed_out_never(waited_now) == FALSE

\* if waited >= max_wait_seconds
endpoint_timed_out(waited_now) == waited_now >= endpoint_max_wait_seconds

\* one round of the loop: the status request, the break on active, the
\* timeout check, the sleep
endpoint_wait_poll ==
    /\ ew_pc = "poll"
    /\ \E answer \in EndpointAnswers :
          IF answer \notin EndpointStates
          THEN /\ ew_pc' = answer
               /\ UNCHANGED <<ew_waited, ew_polls, ew_state>>
          ELSE /\ ew_polls' = ew_polls + 1
               /\ ew_state' = answer
               /\ IF answer = "active"
                  THEN ew_pc' = "active" /\ UNCHANGED ew_waited
                  ELSE IF endpoint_timed_out(ew_waited)
                  THEN ew_pc' = "timeout" /\ UNCHANGED ew_waited
                  ELSE /\ ew_waited' = ew_waited + endpoint_poll_interval
                       /\ UNCHANGED ew_pc
    /\ UNCHANGED <<lifecycle_vars, reset_vars, retry_vars, unit_vars, classify_vars,
                   config_vars, setup_vars, name_vars, migration_wait_vars>>

NextEndpoint == endpoint_wait_poll

\* the loop is sequential code: it always takes its next step
SpecEndpointWait ==
    InitEndpoint /\ [][NextEndpoint]_vars /\ WF_vars(NextEndpoint)

\* --------------------------- _neon_migrations_synchronized, a follower's wait
\* Times are in 0.1 s.
MIGRATION_WAIT_TIMEOUT == 3000       \* _MIGRATION_WAIT_TIMEOUT = 300
migration_poll_interval == 5         \* poll_interval = 0.5

InitMigrationWait ==
    /\ SessionIdle
    /\ ResetIdle
    /\ RetryIdle
    /\ UnitsIdle
    /\ ClassifyIdle /\ ConfigIdle /\ SetupIdle /\ NameIdle /\ EndpointIdle
    /\ mw_pc = "wait"
    /\ mw_waited = 0
    /\ mw_polls = 0
    /\ mw_done = FALSE

\* the creator writes the signal file; it may do so at any time, or never
creator_write_text ==
    /\ ~mw_done
    /\ mw_done' = TRUE
    /\ UNCHANGED <<lifecycle_vars, reset_vars, retry_vars, unit_vars, classify_vars,
                   config_vars, setup_vars, name_vars, endpoint_vars,
                   mw_pc, mw_waited, mw_polls>>

\* (mutant) the follower does not look at the signal file
signal_exists_always(done) == TRUE

\* migrations_done_file.exists()
signal_exists(done) == done

\* one round of the loop: the loop condition, the timeout check, the sleep
follower_wait_poll ==
    /\ mw_pc = "wait"
    /\ mw_polls' = mw_polls + 1
    /\ IF signal_exists(mw_done)
       THEN mw_pc' = "returned" /\ UNCHANGED mw_waited
       ELSE IF mw_waited >= MIGRATION_WAIT_TIMEOUT
       THEN mw_pc' = "timeout" /\ UNCHANGED mw_waited
       ELSE /\ mw_waited' = mw_waited + migration_poll_interval
            /\ UNCHANGED mw_pc
    /\ UNCHANGED <<lifecycle_vars, reset_vars, retry_vars, unit_vars, classify_vars,
                   config_vars, setup_vars, name_vars, endpoint_vars, mw_done>>

NextMigrationWait ==
    \/ creator_write_text
    \/ follower_wait_poll

\* the follower's loop is sequential code; nothing makes the creator write
SpecMigrationWait ==
    InitMigrationWait /\ [][NextMigrationWait]_vars
        /\ WF_vars(follower_wait_poll)

\* ----------------------------------------------------------- _get_config_value
\* A str | None value: None, or a string (which may be empty).
PyNone == [some |-> FALSE, value |-> ""]
Str(v) == [some |-> TRUE, value |-> v]

\* the truth value of a str | None
truthy(x) == x.some /\ x.value # ""

\* what the sources of one setting hold: the CLI option (None when not
\* given), the environment variable (None when unset), the ini setting
\* (getini gives an empty value when the file does not set it)
SourceValues ==
    [cli : {PyNone, Str(""), Str("cli")},
     env : {PyNone, Str(""), Str("env")},
     ini : {PyNone, Str(""), Str("ini")}]

\* (mutant) the environment variable is looked at before the CLI option
_get_config_value_env_first(sources, ini_name, default) ==
    IF sources.env # PyNone THEN sources.env
    ELSE IF sources.cli # PyNone THEN sources.cli
    ELSE IF ini_name /\ truthy(sources.ini) THEN sources.ini
    ELSE default

\* ini_name says whether the caller names an ini setting
_get_config_value(sources, ini_name, default) ==
    IF sources.cli # PyNone THEN sources.cli
    ELSE IF sources.env # PyNone THEN sources.env
    ELSE IF ini_name /\ truthy(sources.ini) THEN sources.ini
    ELSE default

InitConfig ==
    /\ SessionIdle
    /\ ResetIdle
    /\ RetryIdle
    /\ UnitsIdle
    /\ ClassifyIdle /\ SetupIdle /\ NameIdle /\ EndpointIdle /\ MigrationWaitIdle
    /\ gc_pc = "call"
    /\ gc_args \in [sources : SourceValues, ini_name : BOOLEAN,
                     default : {PyNone, Str("default")}]
    /\ gc_result = PyNone

get_config_value_call ==
    /\ gc_pc = "call"
    /\ gc_result' = _get_config_value(gc_args.sources, gc_args.ini_name,
                                      gc_args.default)
    /\ gc_pc' = "returned"
    /\ UNCHANGED <<lifecycle_vars, reset_vars, retry_vars, unit_vars, classify_vars,
                   gc_args, setup_vars, name_vars, endpoint_vars,
                   migration_wait_vars>>

NextConfig == get_config_value_call

SpecConfig == InitConfig /\ [][NextConfig]_vars

\* ---------------------------------- _create_neon_branch, up to the first calls
\* os.environ[env_var_name] before the fixture: absent, or a prior value
SetupEnvValues == {PyNone, Str("prior")}

InitSetup ==
    /\ SessionIdle
    /\ ResetIdle
    /\ RetryIdle
    /\ UnitsIdle
    /\ ClassifyIdle /\ ConfigIdle /\ NameIdle /\ EndpointIdle /\ MigrationWaitIdle
    /\ su_pc = "start"
    /\ su_sources \in [api_key : SourceValues, project_id : SourceValues,
                        environ : SetupEnvValues]
    /\ su_api_key = PyNone
    /\ su_project_id = PyNone
    /\ su_calls = <<>>
    /\ su_env = su_sources.environ

\* api_key = _get_config_value(...), project_id = _get_config_value(...)
create_neon_branch_resolve ==
    /\ su_pc = "start"
    /\ su_api_key' = _get_config_value(su_sources.api_key, TRUE, PyNone)
    /\ su_project_id' = _get_config_value(su_sources.project_id, TRUE, PyNone)
    /\ su_pc' = "resolved"
    /\ UNCHANGED <<lifecycle_vars, reset_vars, retry_vars, unit_vars, classify_vars,
                   config_vars, su_sources, su_calls, su_env, name_vars,
                   endpoint_vars, migration_wait_vars>>

\* (mutant) only the API key is required
credentials_missing_key_only(api_key, project_id) == ~truthy(api_key)

\* if not api_key: pytest.skip(...); if not project_id: pytest.skip(...)
credentials_missing(api_key, project_id) ==
    ~truthy(api_key) \/ ~truthy(project_id)

\* the two checks: a skip, or on to NeonAPI(api_key=api_key)
create_neon_branch_check ==
    /\ su_pc = "resolved"
    /\ su_pc' = IF credentials_missing(su_api_key, su_project_id)
                THEN "skipped" ELSE "configured"
    /\ UNCHANGED <<lifecycle_vars, reset_vars, retry_vars, unit_vars, classify_vars,
                   config_vars, su_sources, su_api_key, su_project_id,
                   su_calls, su_env, name_vars, endpoint_vars,
                   migration_wait_vars>>

\* config._neon_default_branch_id = _get_default_branch_id(neon, project_id)
create_neon_branch_lookup ==
    /\ su_pc = "configured"
    /\ su_calls' = Append(su_calls, "branches")
    /\ su_pc' = "looked_up"
    /\ UNCHANGED <<lifecycle_vars, reset_vars, retry_vars, unit_vars, classify_vars,
                   config_vars, su_sources, su_api_key, su_project_id, su_env,
                   name_vars, endpoint_vars, migration_wait_vars>>

\* the rest of the set-up, without failures: the branch is created, its
\* endpoint awaited, its password reset, and the environment variable set
create_neon_branch_rest ==
    /\ su_pc = "looked_up"
    /\ su_calls' = su_calls \o <<"branch_create", "endpoint",
                                  "role_password_reset">>
    /\ su_env' = Str("connection_string")
    /\ su_pc' = "yielded"
    /\ UNCHANGED <<lifecycle_vars, reset_vars, retry_vars, unit_vars, classify_vars,
                   config_vars, su_sources, su_api_key, su_project_id,
                   name_vars, endpoint_vars, migration_wait_vars>>

NextSetup ==
    \/ create_neon_branch_resolve
    \/ create_neon_branch_check
    \/ create_neon_branch_lookup
    \/ create_neon_branch_rest

SpecSetup == InitSetup /\ [][NextSetup]_vars

\* ------------------------------------------ _create_neon_branch, the branch name
\* A name is the sequence of its characters.
ascii_digits == <<"0", "1", "2", "3", "4", "5", "6", "7", "8", "9">>

\* [a-zA-Z0-9_-]
NameChars ==
    {ascii_lowercase[n] : n \in 1..26} \cup {ascii_uppercase[n] : n \in 1..26}
        \cup {ascii_digits[n] : n \in 1..10} \cup {"_", "-"}

\* re.sub(r"[^a-zA-Z0-9_-]", "-", name)
replace_disallowed(name) ==
    [i \in 1..Len(name) |-> IF name[i] \in NameChars THEN name[i] ELSE "-"]

\* re.sub(r"-+", "-", name)
RECURSIVE collapse_hyphens(_)
collapse_hyphens(name) ==
    IF Len(name) < 2 THEN name
    ELSE IF name[1] = "-" /\ name[2] = "-" THEN collapse_hyphens(Tail(name))
    ELSE <<name[1]>> \o collapse_hyphens(Tail(name))

\* str.strip(chars)
RECURSIVE str_strip(_, _)
str_strip(text, chars) ==
    IF text = <<>> THEN text
    ELSE IF text[1] \in chars THEN str_strip(Tail(text), chars)
    ELSE IF text[Len(text)] \in chars
    THEN str_strip(SubSeq(text, 1, Len(text) - 1), chars)
    ELSE text

_sanitize_branch_name(name) ==
    str_strip(collapse_hyphens(replace_disallowed(name)), {"-"})

\* what git rev-parse --abbrev-ref HEAD does: it cannot be run (it times
\* out, or git is missing), or it exits with a return code and an output
GitFailed == [raised |-> TRUE, returncode |-> 1, stdout |-> <<>>]
GitResult(returncode, stdout) ==
    [raised |-> FALSE, returncode |-> returncode, stdout |-> stdout]

\* the sanitized name of the git branch, or None
_get_git_branch_name(git) ==
    IF ~git.raised /\ git.returncode = 0
    THEN LET branch == str_strip(git.stdout, {" ", "\n"})
         IN  IF branch # <<>>
             THEN [some |-> TRUE, value |-> _sanitize_branch_name(branch)]
             ELSE [some |-> FALSE, value |-> <<>>]
    ELSE [some |-> FALSE, value |-> <<>>]

GitPrefixLength == 15        \* git_branch[:15]

\* git_branch[:15]
git_prefix_of(git_branch) ==
    SubSeq(git_branch, 1, IF Len(git_branch) < GitPrefixLength
                          THEN Len(git_branch) ELSE GitPrefixLength)

PytestPrefix == <<"p", "y", "t", "e", "s", "t", "-">>

\* the answers of git: no answer, an error, or a name and a newline
GitAnswers ==
    LET GitHeads == {[i \in 1..n |-> "a"] : n \in {0, 1, 13, 14, 15, 16}}
        GitSeparators ==
            {<<>>, <<"-">>, <<"/">>, <<"-", "-">>, <<"/", "-", "/">>, <<"_">>,
             <<".">>, <<" ">>}
        GitTails == {<<>>, <<"b">>, <<"B", "2", "_", "c">>}
    IN  {GitFailed, GitResult(128, <<>>)}
        \cup {GitResult(0, h \o x \o t \o <<"\n">>) :
                  h \in GitHeads, x \in GitSeparators, t \in GitTails}

\* os.urandom(2).hex()
RandomSuffixes == {<<"0", "0", "0", "0">>, <<"a", "1", "f", "9">>}

\* branch_name_suffix as the fixtures pass it
BranchNameSuffixes == {<<>>, <<"-", "m", "i", "g", "r", "a", "t", "e", "d">>, <<"-", "t", "e", "s", "t">>}

InitName ==
    /\ SessionIdle
    /\ ResetIdle
    /\ RetryIdle
    /\ UnitsIdle
    /\ ClassifyIdle /\ ConfigIdle /\ SetupIdle /\ EndpointIdle
    /\ MigrationWaitIdle
    /\ bn_pc = "call"
    /\ bn_input \in [git : GitAnswers, random_suffix : RandomSuffixes,
                      branch_name_suffix : BranchNameSuffixes]
    /\ bn_git_prefix = [some |-> FALSE, value |-> <<>>]
    /\ bn_name = <<>>

\* random_suffix, git_branch, git_prefix and branch_name
create_neon_branch_name ==
    /\ bn_pc = "call"
    /\ LET git_branch == _get_git_branch_name(bn_input.git)
       IN  IF git_branch.some /\ git_branch.value # <<>>
           THEN LET git_prefix == git_prefix_of(git_branch.value)
                IN  /\ bn_git_prefix' = [some |-> TRUE, value |-> git_prefix]
                    /\ bn_name' = PytestPrefix \o git_prefix \o <<"-">>
                                      \o bn_input.random_suffix
                                      \o bn_input.branch_name_suffix
           ELSE /\ bn_git_prefix' = [some |-> FALSE, value |-> <<>>]
                /\ bn_name' = PytestPrefix \o bn_input.random_suffix
                                  \o bn_input.branch_name_suffix
    /\ bn_pc' = "built"
    /\ UNCHANGED <<lifecycle_vars, reset_vars, retry_vars, unit_vars, classify_vars,
                   config_vars, setup_vars, bn_input, endpoint_vars,
                   migration_wait_vars>>

NextName == create_neon_branch_name

SpecName == InitName /\ [][NextName]_vars

\* ------------------------------------------- _branch_to_dict, _dict_to_branch
\* A field of a NeonBranch: None, or a string, as the sequence of its
\* characters.  The JSON text of a dict is kept key by key; the text of one
\* value is the sequence of its characters.
NoneValue == [none |-> TRUE, chars |-> <<>>]
StrValue(chars) == [none |-> FALSE, chars |-> chars]

JsonNullText == <<"n", "u", "l", "l">>

\* the characters a JSON string escapes with a backslash
JsonEscaped == {"\"", "\\"}

RECURSIVE json_escape(_)
json_escape(chars) ==
    IF chars = <<>> THEN <<>>
    ELSE (IF Head(chars) \in JsonEscaped THEN <<"\\", Head(chars)>>
          ELSE <<Head(chars)>>) \o json_escape(Tail(chars))

RECURSIVE json_unescape(_)
json_unescape(text) ==
    IF text = <<>> THEN <<>>
    ELSE IF Head(text) = "\\" /\ Len(text) >= 2
    THEN <<text[2]>> \o json_unescape(SubSeq(text, 3, Len(text)))
    ELSE <<Head(text)>> \o json_unescape(Tail(text))

\* (mutant) a string is written between quotes as it is
json_dumps_value_raw(value) ==
    IF value.none THEN JsonNullText
    ELSE <<"\"">> \o value.chars \o <<"\"">>

\* json.dumps of one value: null for None, else the quoted, escaped string
json_dumps_value(value) ==
    IF value.none THEN JsonNullText
    ELSE <<"\"">> \o json_escape(value.chars) \o <<"\"">>

\* json.loads of one value
json_loads_value(text) ==
    IF text = JsonNullText THEN NoneValue
    ELSE StrValue(json_unescape(SubSeq(text, 2, Len(text) - 1)))

\* the strings a field is drawn from: up to two characters, with the
\* characters JSON escapes, and the word null
FieldStrings ==
    LET Alphabet == {"a", "\"", "\\"}
    IN  {<<>>} \cup {<<c>> : c \in Alphabet}
        \cup {<<c, d>> : c \in Alphabet, d \in Alphabet}
        \cup {JsonNullText}

SerializedBranches ==
    {NeonBranch(StrValue(branch_id), StrValue(project_id), StrValue(<<"a">>),
                StrValue(host), parent_id) :
        branch_id \in FieldStrings,
        project_id \in {<<"a">>, <<"\"">>},
        host \in {<<>>, JsonNullText},
        parent_id \in {NoneValue} \cup {StrValue(c) : c \in FieldStrings}}

InitSerial ==
    /\ SessionIdle
    /\ ResetIdle
    /\ RetryIdle
    /\ ClassifyIdle /\ ConfigIdle /\ SetupIdle /\ NameIdle /\ EndpointIdle
    /\ MigrationWaitIdle
    /\ UnitsIdleBut("serial")
    /\ sz_pc = "branch"
    /\ sz_branch \in SerializedBranches
    /\ sz_data = <<>>
    /\ sz_restored = <<>>

\* _branch_to_dict(branch)
branch_to_dict_call ==
    /\ sz_pc = "branch"
    /\ sz_data' = branch_to_dict(sz_branch)
    /\ sz_pc' = "dict"
    /\ UNCHANGED <<lifecycle_vars, reset_vars, retry_vars, classify_vars,
                   config_vars, setup_vars, name_vars, endpoint_vars,
                   migration_wait_vars, unit_vars_but_serial, sz_branch,
                   sz_restored>>

\* json.dumps(data), as the creator does before cache_file.write_text
json_dumps_call ==
    /\ sz_pc = "dict"
    /\ sz_data' = [k \in DOMAIN sz_data |-> json_dumps_value(sz_data[k])]
    /\ sz_pc' = "text"
    /\ UNCHANGED <<lifecycle_vars, reset_vars, retry_vars, classify_vars,
                   config_vars, setup_vars, name_vars, endpoint_vars,
                   migration_wait_vars, unit_vars_but_serial, sz_branch,
                   sz_restored>>

\* json.loads(text), as a follower does after cache_file.read_text
json_loads_call ==
    /\ sz_pc = "text"
    /\ sz_data' = [k \in DOMAIN sz_data |-> json_loads_value(sz_data[k])]
    /\ sz_pc' = "loaded"
    /\ UNCHANGED <<lifecycle_vars, reset_vars, retry_vars, classify_vars,
                   config_vars, setup_vars, name_vars, endpoint_vars,
                   migration_wait_vars, unit_vars_but_serial, sz_branch,
                   sz_restored>>

\* _dict_to_branch(data), on the dict itself or on the one read back
dict_to_branch_call ==
    /\ sz_pc \in {"dict", "loaded"}
    /\ sz_restored' = dict_to_branch(sz_data)
    /\ sz_pc' = IF sz_pc = "dict" THEN "restored" ELSE "restored_json"
    /\ UNCHANGED <<lifecycle_vars, reset_vars, retry_vars, classify_vars,
                   config_vars, setup_vars, name_vars, endpoint_vars,
                   migration_wait_vars, unit_vars_but_serial, sz_branch,
                   sz_data>>

NextSerial ==
    \/ branch_to_dict_call
    \/ json_dumps_call
    \/ json_loads_call
    \/ dict_to_branch_call

SpecSerial == InitSerial /\ [][NextSerial]_vars

\* ------------------------------------------ _create_neon_branch, the expiry
\* An int | None value.
NoInt == [some |-> FALSE, value |-> 0]
SomeInt(n) == [some |-> TRUE, value |-> n]

\* the value of a decimal digit, -1 for any other character
digit_value(c) ==
    IF \E d \in 1..10 : ascii_digits[d] = c
    THEN (CHOOSE d \in 1..10 : ascii_digits[d] = c) - 1 ELSE -1

RECURSIVE digits_value(_)
digits_value(text) ==
    IF text = <<>> THEN 0
    ELSE digits_value(SubSeq(text, 1, Len(text) - 1)) * 10
             + digit_value(text[Len(text)])

\* int(text) of a str: an optional sign and one digit or more, else a
\* ValueError (ok is FALSE)
int_of(text) ==
    LET negative == text # <<>> /\ Head(text) = "-"
        digits == IF negative THEN Tail(text) ELSE text
    IN  IF digits = <<>> \/ \E n \in 1..Len(digits) : digit_value(digits[n]) < 0
        THEN [ok |-> FALSE, value |-> 0]
        ELSE [ok |-> TRUE,
              value |-> IF negative THEN 0 - digits_value(digits)
                        ELSE digits_value(digits)]

\* branch_expiry_override as the fixtures pass it
branch_expiry_override_of(caller) ==
    IF caller = "_neon_migration_branch" THEN SomeInt(0) ELSE NoInt

\* (mutant) an override of 0 counts as no override
branch_expiry_of_truthy_override(branch_expiry_override, cli, ini) ==
    IF branch_expiry_override.some /\ branch_expiry_override.value # 0
    THEN [ok |-> TRUE, value |-> branch_expiry_override.value]
    ELSE IF cli.some THEN [ok |-> TRUE, value |-> cli.value]
    ELSE int_of(ini)

\* branch_expiry: the override, else the CLI option, else int(getini(...))
branch_expiry_of(branch_expiry_override, cli, ini) ==
    IF branch_expiry_override.some
    THEN [ok |-> TRUE, value |-> branch_expiry_override.value]
    ELSE IF cli.some THEN [ok |-> TRUE, value |-> cli.value]
    ELSE int_of(ini)

\* strftime("%Y-%m-%dT%H:%M:%SZ") of a time in ms: the time in whole
\* seconds, as the text has no fraction (the calendar is not modelled)
strftime_seconds(time_ms) == time_ms \div 1000

\* the expiry part of branch_config; now and the expiry are in ms
expires_at_of(branch_expiry, now) ==
    IF branch_expiry # 0 /\ branch_expiry > 0
    THEN [has_expires_at |-> TRUE,
          expires_at |-> strftime_seconds(now + branch_expiry * 1000)]
    ELSE [has_expires_at |-> FALSE, expires_at |-> 0]

ExpiryCallers == {"_neon_migration_branch", "_neon_branch_for_reset",
                  "neon_branch_shared"}

InitExpiry ==
    /\ SessionIdle
    /\ ResetIdle
    /\ RetryIdle
    /\ ClassifyIdle /\ ConfigIdle /\ SetupIdle /\ NameIdle /\ EndpointIdle
    /\ MigrationWaitIdle
    /\ UnitsIdleBut("expiry")
    /\ ex_pc = "call"
    /\ ex_input \in [caller : ExpiryCallers,
                      cli : {NoInt, SomeInt(-60), SomeInt(0), SomeInt(1),
                             SomeInt(600)},
                      ini : {<<"6", "0", "0">>, <<"0">>, <<"-", "5">>, <<"1">>,
                             <<"x">>, <<>>},
                      now : {0, 999, 1000, 59001}]
    /\ ex_branch_expiry = 0
    /\ ex_branch_config = <<>>

\* _create_neon_branch from the resolution of branch_expiry to the creation
\* request; int() of the ini setting can raise before any request
create_neon_branch_expiry ==
    /\ ex_pc = "call"
    /\ LET branch_expiry ==
               branch_expiry_of(branch_expiry_override_of(ex_input.caller),
                                ex_input.cli, ex_input.ini)
       IN  IF branch_expiry.ok
           THEN /\ ex_branch_expiry' = branch_expiry.value
                /\ ex_branch_config' = expires_at_of(branch_expiry.value,
                                                     ex_input.now)
                /\ ex_pc' = "requested"
           ELSE /\ ex_pc' = "raised"
                /\ UNCHANGED <<ex_branch_expiry, ex_branch_config>>
    /\ UNCHANGED <<lifecycle_vars, reset_vars, retry_vars, classify_vars,
                   config_vars, setup_vars, name_vars, endpoint_vars,
                   migration_wait_vars, unit_vars_but_expiry, ex_input>>

NextExpiry == create_neon_branch_expiry

SpecExpiry == InitExpiry /\ [][NextExpiry]_vars

\* ------------------------------------- _neon_branch_for_reset, the decision
\* The public schema of the migration branch, as the rows the fingerprint
\* query returns (one per column); an empty database has none.
SchemaRows == {<<>>, <<"users.id">>, <<"users.id", "users.name">>}

\* _get_schema_fingerprint: () when no driver can be imported, else the rows
_get_schema_fingerprint(driver, rows) == IF ~driver THEN <<>> ELSE rows

\* _get_xdist_worker_id() of the workers looked at; "main" without xdist
WorkerIds == {"main", "gw0", "gw1"}

\* the migration branch handed to the fixture
SharedMigrationBranch ==
    NeonBranch(FreshId(1, "-migrated"), ProjectId,
               ConnectionString(FreshId(1, "-migrated")),
               FreshId(1, "-migrated"), DefaultBranch)

\* what the fixture does: a _create_neon_branch call with its arguments, or
\* the migration branch as it is
CreateChild(parent_branch_id_override, worker_id) ==
    [created |-> TRUE, parent_branch_id_override |-> parent_branch_id_override,
     branch_name_suffix |-> <<"-test-", worker_id>>]
ReuseMigrationBranch ==
    [created |-> FALSE, parent_branch_id_override |-> NoBranch,
     branch_name_suffix |-> <<>>]

\* migrations_defined: the value handed on is not the sentinel
\* _MIGRATIONS_NOT_DEFINED; without an overriding fixture the schema stays
InitForReset ==
    /\ SessionIdle
    /\ ResetIdle
    /\ RetryIdle
    /\ ClassifyIdle /\ ConfigIdle /\ SetupIdle /\ NameIdle /\ EndpointIdle
    /\ MigrationWaitIdle
    /\ UnitsIdleBut("for_reset")
    /\ fr_pc = "call"
    /\ fr_input \in {i \in [worker_id : WorkerIds, migrations_defined : BOOLEAN,
                            driver : BOOLEAN, connects : BOOLEAN,
                            pre_rows : SchemaRows, post_rows : SchemaRows] :
                        /\ ~i.migrations_defined => i.post_rows = i.pre_rows
                        /\ ~i.driver => i.connects}
    /\ fr_result = ReuseMigrationBranch

\* _neon_branch_for_reset up to its yield; psycopg.connect can raise when
\* the post-migration fingerprint is taken
neon_branch_for_reset_decide ==
    /\ fr_pc = "call"
    /\ LET migrations_defined == fr_input.migrations_defined
           pre_fingerprint ==
               _get_schema_fingerprint(fr_input.driver, fr_input.pre_rows)
           post_fingerprint ==
               _get_schema_fingerprint(fr_input.driver, fr_input.post_rows)
           compared == migrations_defined /\ pre_fingerprint # <<>>
           schema_changed_now ==
               IF compared THEN pre_fingerprint # post_fingerprint
               ELSE migrations_defined /\ pre_fingerprint = <<>>
       IN  IF compared /\ ~fr_input.connects
           THEN fr_pc' = "raised" /\ UNCHANGED fr_result
           ELSE /\ fr_pc' = "yielded"
                /\ fr_result' =
                      IF schema_changed_now \/ fr_input.worker_id # "main"
                      THEN CreateChild(SharedMigrationBranch.branch_id,
                                       fr_input.worker_id)
                      ELSE ReuseMigrationBranch
    /\ UNCHANGED <<lifecycle_vars, reset_vars, retry_vars, classify_vars,
                   config_vars, setup_vars, name_vars, endpoint_vars,
                   migration_wait_vars, unit_vars_but_for_reset, fr_input>>

NextForReset == neon_branch_for_reset_decide

SpecForReset == InitForReset /\ [][NextForReset]_vars

\* ===================================================================== claims
Gens == {"mb", "reset", "shared"}
CreateErrors == {"create_error", "no_endpoint", "endpoint_timeout",
                 "safety_check", "password_error"}
MutatingOps == {"branch_create", "role_password_reset", "restore", "branch_delete"}

\* the worker left _neon_migration_branch's set-up with a branch
Obtained(w) == st[w].mb \in {"active", "torn"}

\* the worker issued the creation request of the migration branch
InvokedCreation(w) ==
    \E n \in 1..Len(calls[w]) :
        calls[w][n].op = "branch_create" /\ calls[w][n].src = NoBranch

\* the descriptor in the cache file
CachedBranch == dict_to_branch(json_loads(cache_file).branch)

\* the worker that created the shared branch has applied its migrations
CreatorMigrationsDone ==
    \E c \in Workers : is_creator[c] /\ Obtained(c) /\ st[c].mig = "active"

\* the delete calls issued for branch b, as <<worker, position>>
DeleteCalls(b) ==
    {x \in UNION {{<<w, n>> : n \in 1..Len(calls[w])} : w \in Workers} :
        calls[x[1]][x[2]] = Call("branch_delete", b, NoBranch)}

\* the overriding migration fixture has started on the worker
MigrationRan(w) == cfg.overridden /\ st[w].mig # "unset"

\* C1 (as claimed): under xdist exactly one worker invokes the creation of
\* the migration branch, and when every worker runs its test all of them
\* hold the same descriptor and exactly one of them is the creator.
C1_ExactlyOneInvokes ==
    cfg.xdist =>
        /\ Cardinality({w \in Workers : InvokedCreation(w)}) <= 1
        /\ (\A w \in Workers : pc[w] = "testing") =>
              /\ Cardinality({w \in Workers : is_creator[w]}) = 1
              /\ \A v, w \in Workers : br[v].mb = br[w].mb

\* C1 (amended): under xdist at most one worker leaves the set-up of
\* _neon_migration_branch as creator; every worker that obtains a branch
\* holds the descriptor that is in the cache file, which the one successful
\* creator wrote; two workers invoke the creation only if one of them raised.
C1_OneSharedBranch ==
    cfg.xdist =>
        /\ Cardinality({w \in Workers : Obtained(w) /\ is_creator[w]}) <= 1
        /\ \A w \in Workers :
              Obtained(w) =>
                 /\ cache_file # NoCache
                 /\ br[w].mb = CachedBranch
                 /\ \E c \in Workers :
                       Obtained(c) /\ is_creator[c] /\ br[c].mb = br[w].mb
        /\ \A v, w \in Workers :
              (v # w /\ InvokedCreation(v) /\ InvokedCreation(w)) =>
                 (st[v].mb \in Errors \/ st[w].mb \in Errors)

C1_Witness ==
    /\ cfg.xdist
    /\ \E c, f \in Workers :
          /\ is_creator[c] /\ ~is_creator[f]
          /\ st[c].mb = "active" /\ st[f].mb = "active"
          /\ br[c].mb = br[f].mb /\ br[f].mb.branch_id = FreshId(c, "-migrated")

\* C2: under xdist the overriding neon_apply_migrations runs on one worker
\* only, the creator; it runs on no follower.
C2_MigrationsRunOnce ==
    cfg.xdist =>
        /\ Cardinality({w \in Workers : MigrationRan(w)}) <= 1
        /\ \A w \in Workers : MigrationRan(w) => is_creator[w]

\* C3: under xdist a test that uses neon_branch_readwrite or
\* neon_branch_readonly runs, on the creator or on a follower, only when the
\* creator's migrations are complete and the signal file is written.
C3_TestsAfterMigrations ==
    cfg.xdist =>
        \A w \in Workers :
            (pc[w] \in {"testing", "fn_teardown"} /\ cur[w] \in {"rw", "ro"}) =>
                (migrations_done_file /\ CreatorMigrationsDone)

C3_Witness ==
    /\ cfg.xdist /\ cfg.overridden
    /\ \E c, f \in Workers :
          /\ is_creator[c] /\ ~is_creator[f]
          /\ pc[f] = "testing" /\ cur[f] \in {"rw", "ro"}
          /\ st[c].sync = "active"

\* C4: under xdist a worker sets neon_branch_shared up (forks the shared
\* branch) only when the creator's migrations are complete.
C4_SharedAfterMigrations ==
    cfg.xdist =>
        \A w \in Workers : st[w].shared # "unset" => CreatorMigrationsDone

\* C5: under xdist every delete call for the shared migration branch is
\* issued by the creator in its session teardown, none by a follower, and
\* there is at most one such call over all workers.
C5_OnlyCreatorDeletes ==
    (cfg.xdist /\ cache_file # NoCache) =>
        /\ \A x \in DeleteCalls(CachedBranch.branch_id) :
              is_creator[x[1]] /\ pc[x[1]] = "done"
        /\ Cardinality(DeleteCalls(CachedBranch.branch_id)) <= 1

C5_Witness ==
    /\ cfg.xdist /\ ~cfg.keep
    /\ \E c, f \in Workers :
          /\ is_creator[c] /\ ~is_creator[f]
          /\ st[c].mb = "torn" /\ st[f].mb = "torn"
          /\ pc[c] = "done" /\ pc[f] = "done"
          /\ DeleteCalls(br[f].mb.branch_id) # {}

\* C6: the provider calls of a follower that create, reset a password,
\* restore or delete never have the migration branch as their target; each
\* password reset, restore and delete of a follower has as target a branch
\* that an earlier creation request of the same follower returned.
C6_FollowerLeavesMigrationBranch ==
    cfg.xdist =>
        \A w \in Workers :
            (Obtained(w) /\ ~is_creator[w]) =>
                \A n \in 1..Len(calls[w]) :
                    calls[w][n].op \in MutatingOps =>
                        /\ calls[w][n].target # br[w].mb.branch_id
                        /\ \/ calls[w][n].op = "branch_create"
                           \/ \E m \in 1..(n - 1) :
                                 /\ calls[w][m].op = "branch_create"
                                 /\ calls[w][m].target = calls[w][n].target

C6_Witness ==
    /\ cfg.xdist
    /\ \E f \in Workers :
          /\ ~is_creator[f] /\ st[f].mb = "torn"
          /\ \E n, m \in 1..Len(calls[f]) :
                /\ calls[f][n].op = "restore"
                /\ calls[f][n].src = br[f].mb.branch_id
                /\ calls[f][m].op = "branch_delete"

\* C7: a step in which the lock holder's set-up of _neon_migration_branch
\* raises releases the lock and leaves no cache file; the lock is only ever
\* held by a worker inside the with-block; and a worker that takes the lock
\* while no cache file exists becomes the creator.
C7_LockReleasedOnRaise ==
    [][\A w \in Workers :
          /\ (lock = w /\ st'[w].mb \in Errors) =>
                (lock' = 0 /\ cache_file' = NoCache)
          /\ lock' = w => st'[w].mb \in {"creating", "created"}
          /\ (lock = 0 /\ lock' = w) =>
                (cache_file = NoCache /\ is_creator'[w])]_vars

C7_Witness ==
    \E v, w \in Workers :
        /\ st[v].mb \in CreateErrors
        /\ lock = w /\ st[w].mb = "creating"
        /\ cache_file = NoCache

\* C8: a worker whose default-branch lookup returned the id D has issued no
\* role_password_reset, restore or branch_delete call with target D.
C8_DefaultBranchUntouched ==
    \A w \in Workers :
        default_id[w] \notin {Unset, NoBranch} =>
            \A n \in 1..Len(calls[w]) :
                calls[w][n].op \in {"role_password_reset", "restore", "branch_delete"}
                    => calls[w][n].target # default_id[w]

C8_Witness ==
    \E w \in Workers :
        /\ default_id[w] = DefaultBranch
        /\ pc[w] = "done"
        /\ \E n \in 1..Len(calls[w]) :
              calls[w][n] = Call("endpoint", DefaultBranch, NoBranch)

C10_FailedSetupBranchDeleted ==
    \A w \in Workers :
        (pc[w] = "done" /\ ~cfg.keep) =>
            \A n \in 1..Len(calls[w]) :
                (/\ calls[w][n].op = "branch_create"
                 /\ calls[w][n].target \notin {NoBranch, DefaultBranch}
                 /\ \E f \in Gens :
                       /\ st[w][f] \in {"no_endpoint", "endpoint_timeout",
                                        "password_error"}
                       /\ calls[w][n].target.kind =
                             (CASE f = "mb" -> "-migrated" [] f = "reset" -> "-test"
                                [] OTHER -> "-shared"))
                => \E m \in (n + 1)..Len(calls[w]) :
                      calls[w][m] = Call("branch_delete", calls[w][n].target, NoBranch)

\* the provider calls the worker issues in the step
NewCalls(w) == SubSeq(calls'[w], Len(calls[w]) + 1, Len(calls'[w]))

\* the step resumes the generator of fixture f (its finally block runs)
Resumed(w, f) == gen[w][f].st = "yielded" /\ gen'[w][f].st # "yielded"

\* the step is a run of _create_neon_branch for fixture f that yields
Yields(w, f) == gen[w][f].st = "none" /\ gen'[w][f].st = "yielded"

\* C11: a step that runs the teardown of a _create_neon_branch generator
\* issues exactly the delete call of the yielded branch when keep-branches
\* is off and no call when it is on; the teardown of a fixture resumes its
\* generator whatever the tests' results; with keep-branches on no delete
\* call is ever issued.
C11_TeardownDeletes ==
    [][\A w \in Workers : \A f \in Gens :
          /\ Resumed(w, f) =>
                NewCalls(w) = IF cfg.keep THEN <<>>
                              ELSE <<Call("branch_delete", gen[w][f].branch_id,
                                          NoBranch)>>
          /\ (st[w][f] = "active" /\ st'[w][f] = "torn" /\ gen[w][f].st = "yielded")
                => Resumed(w, f)
          /\ (pc'[w] = "done" /\ ~cfg.keep /\ st'[w][f] = "torn"
                /\ gen'[w][f].st # "none")
                => \E n \in 1..Len(calls'[w]) :
                      calls'[w][n] = Call("branch_delete", br'[w][f].branch_id,
                                          NoBranch)
          /\ cfg.keep =>
                \A n \in 1..Len(calls'[w]) : calls'[w][n].op # "branch_delete"]_vars

C11_Witness ==
    \E w \in Workers :
        /\ ~cfg.keep /\ pc[w] = "done" /\ outcome[w] = "failed"
        /\ st[w].reset = "torn" /\ gen[w].reset.st = "closed"
        /\ calls[w][Len(calls[w])] =
              Call("branch_delete", FreshId(w, "-migrated"), NoBranch)
        /\ \E n \in 1..Len(calls[w]) :
              calls[w][n] = Call("branch_delete", FreshId(w, "-test"), NoBranch)

\* C12: a step in which the delete call of a teardown raises records a
\* warning that names the branch, completes the finally block (the variable
\* is restored, the generator is closed) and lets the teardown go on; no
\* generator is ever left by an error of the delete call.
C12_DeleteFailureWarns ==
    [][\A w \in Workers : \A f \in Gens :
          /\ gen'[w][f].st # "raised"
          /\ (Resumed(w, f) /\ faults' > faults) =>
                /\ gen'[w][f].st = "closed"
                /\ Report("delete_warning", gen[w][f].branch_id, "delete_error")
                      \in reports'[w]
                /\ env'[w] = gen[w][f].original_env_value
                /\ st[w][f] = "active" =>
                      (pc'[w] # pc[w] /\ st'[w][f] = "torn")]_vars

C12_Witness ==
    \E w \in Workers :
        /\ pc[w] = "done"
        /\ Report("delete_warning", FreshId(w, "-test"), "delete_error") \in reports[w]
        /\ calls[w][Len(calls[w])] =
              Call("branch_delete", FreshId(w, "-migrated"), NoBranch)

\* C13: a run of _create_neon_branch that publishes the connection string
\* keeps the variable's state of before, and the step that tears it down
\* leaves the variable in exactly that state (the value, or absent); the
\* same holds for a follower of _neon_migration_branch; and a worker whose
\* scopes are all torn down has the variable as it was when the session
\* started, whether its tests passed or failed.
C13_EnvRestored ==
    [][\A w \in Workers :
          /\ \A f \in Gens :
                /\ Yields(w, f) =>
                      /\ gen'[w][f].original_env_value = env[w]
                      /\ env'[w] = EnvValue(br'[w][f].connection_string)
                /\ Resumed(w, f) => env'[w] = gen[w][f].original_env_value
          /\ (st[w].mb = "unset" /\ st'[w].mb = "active" /\ ~is_creator'[w]) =>
                /\ follower_env'[w] = env[w]
                /\ env'[w] = EnvValue(br'[w].mb.connection_string)
          /\ (st[w].mb = "active" /\ st'[w].mb = "torn" /\ ~is_creator[w]) =>
                env'[w] = follower_env[w]
          /\ (pc'[w] = "done" /\ \A f \in Gens : gen'[w][f].st # "yielded") =>
                env'[w] = InitialEnv]_vars

C13_Witness ==
    \E w \in Workers :
        /\ ~cfg.prior /\ pc[w] = "done" /\ outcome[w] = "failed"
        /\ st[w].mb = "torn" /\ st[w].reset = "torn" /\ st[w].shared = "torn"
        /\ gen[w].reset.st = "closed" /\ gen[w].shared.st = "closed"
        /\ gen[w].reset.original_env_value # gen[w].shared.original_env_value
        /\ env[w] = EnvAbsent

\* C14: a run of _create_neon_branch issues its calls in the order
\* branch_create, endpoint status, role_password_reset, each for the branch
\* the creation returned: an endpoint poll only after the creation call, the
\* password call directly after the endpoint wait and only when the
\* endpoint was seen active, and the variable is written only by a run
\* whose last call is the password call (all three steps made).
C14_SetupOrder ==
    [][\A w \in Workers :
          LET new == NewCalls(w)
          IN  /\ \A n \in 1..Len(new) :
                    /\ new[n].op = "endpoint" =>
                          (n > 1 /\ new[n - 1].op = "branch_create"
                                 /\ new[n - 1].target = new[n].target)
                    /\ new[n].op = "role_password_reset" =>
                          /\ n > 1 /\ new[n - 1] = Call("endpoint", new[n].target,
                                                         NoBranch)
                          /\ \A f \in Gens :
                                st'[w][f] # st[w][f] =>
                                   st'[w][f] \notin {"no_endpoint", "endpoint_timeout"}
              /\ \A f \in Gens :
                    Yields(w, f) =>
                       /\ Len(new) >= 3
                       /\ new[Len(new) - 2].op = "branch_create"
                       /\ new[Len(new) - 2].target = br'[w][f].branch_id
                       /\ new[Len(new) - 1] =
                             Call("endpoint", br'[w][f].branch_id, NoBranch)
                       /\ new[Len(new)] =
                             Call("role_password_reset", br'[w][f].branch_id, NoBranch)
              /\ (\E n \in 1..Len(new) : new[n].op = "branch_create") =>
                    \/ \E f \in Gens : Yields(w, f)
                    \/ env'[w] = env[w]]_vars

C14_Witness ==
    \E w \in Workers :
        /\ st[w].reset = "active" /\ gen[w].reset.st = "yielded"
        /\ env[w] = EnvValue(ConnectionString(FreshId(w, "-test")))
        /\ Len(calls[w]) >= 3
        /\ calls[w][Len(calls[w])] =
              Call("role_password_reset", FreshId(w, "-test"), NoBranch)

\* C16: the teardown of neon_branch_readwrite fails with the dirty-state
\* message, naming the branch and the error, exactly when its reset raised
\* (restore request error, rate limit exhausted, operation failed,
\* operation timeout); a reset error is never dropped.
C16_ResetFailureReported ==
    [][\A w \in Workers :
          (pc[w] = "fn_teardown" /\ pc'[w] # "fn_teardown") =>
             /\ faults' > faults =>
                   \E e \in ResetErrors :
                      Report("dirty_state", br[w].reset.branch_id, e) \in reports'[w]
             /\ reports'[w] # reports[w] => faults' > faults
             /\ \A r \in reports'[w] \ reports[w] : r.kind = "dirty_state"]_vars

C16_Witness ==
    \E w \in Workers :
        /\ pc[w] = "idle"
        /\ \A e \in {"operation_timeout"} :
              Report("dirty_state", FreshId(w, "-test"), e) \in reports[w]
        /\ calls[w][Len(calls[w])].op = "restore"

\* the restore requests the worker has sent
Restores(w) == {n \in 1..Len(calls[w]) : calls[w][n].op = "restore"}

\* C18: the number of restore requests a worker has sent equals the number
\* of neon_branch_readwrite test bodies it has run, passed or failed (one
\* less while the teardown of the last one is still to run); tests that use
\* neon_branch_readonly or neon_branch_shared add none.
C18_OneResetPerReadwriteTest ==
    \A w \in Workers :
        Cardinality(Restores(w)) =
            IF pc[w] = "fn_teardown" THEN readwrite_tests[w] - 1
            ELSE readwrite_tests[w]

C18_Witness ==
    \E w \in Workers :
        /\ readwrite_tests[w] = 2 /\ Cardinality(Restores(w)) = 2
        /\ outcome[w] = "failed" /\ pc[w] = "idle"

\* the statuses in which an operation needs no more waiting
TerminalSuccess == {"finished", "skipped", "cancelled"}

\* some operation of the last restore was last seen unfinished
OperationRunning == \E op \in DOMAIN rs_seen : rs_seen[op] \notin TerminalSuccess

\* C15 (as claimed): _reset_branch_to_parent returns normally only when
\* every operation of the restore response was last observed finished,
\* skipped or cancelled, and no test body runs while an operation of the
\* last restore is still unfinished.
C15_NextTestAfterRestore ==
    /\ rs_pc = "returned" => ~OperationRunning
    /\ rs_pc = "body" => ~OperationRunning

\* C15 (amended): _reset_branch_to_parent returns normally only after the
\* restore request was sent and every operation it returned was observed
\* finished, skipped or cancelled; a test starts while an operation of the
\* last restore is unfinished only after a reset that raised (operation
\* failed, timeout, rate limit exhausted).
C15_ReturnsAfterOperations ==
    /\ rs_pc = "returned" =>
          /\ "restore" \in rs_requests
          /\ rs_error = "none"
          /\ rs_pending = {}
          /\ ~OperationRunning
    /\ (rs_pc \in {"start", "body", "teardown"} /\ OperationRunning) =>
          rs_error \in {"operation_failed", "operation_timeout",
                        "rate_limit_exhausted"}

C15_Witness ==
    /\ rs_pc = "returned"
    /\ rs_waited > first_poll_delay + poll_interval
    /\ "operation_status" \in rs_requests
    /\ \E a, b \in DOMAIN rs_seen : rs_seen[a] = "finished" /\ rs_seen[b] = "cancelled"

\* C17: with a branch that has no parent, neon_branch_readwrite fails in
\* its set-up with the no-parent message, the test body and the teardown's
\* reset never run, no request is sent, and a direct call of
\* _reset_branch_to_parent raises the no-parent error before any request.
C17_NoParentFails ==
    rs_branch.parent_id = NoBranch =>
        /\ rs_pc \in {"start", "raised"}
        /\ rs_requests = {}
        /\ rs_entry = "fixture" =>
              (rs_pc = "start" /\ rs_reports = {Report("no_parent",
                                                      rs_branch.branch_id, "none")})
        /\ rs_pc = "raised" => (rs_entry = "direct" /\ rs_error = "no_parent")

C17_Witness ==
    /\ rs_branch.parent_id = NoBranch
    /\ rs_pc = "raised" /\ rs_error = "no_parent"
    /\ Report("no_parent", rs_branch.branch_id, "none") \in rs_reports
\* ------------------------------------------------------------------ C19, C20
\* every operation() call so far raised a rate-limit error
AlwaysRateLimited == rt_rate_limited = rt_invocations

\* C19: when operation() raises a rate-limit error k times and then returns,
\* _retry_on_rate_limit returns that value after exactly k+1 invocations and
\* k sleeps; a sleep taken without a Retry-After hint, the i-th counted from
\* 0, lies within base_delay * 2^i * (1 +- jitter_factor).
C19_RetriesThenSucceeds ==
    /\ rt_pc = "returned" =>
          /\ rt_result.kind = "returned"
          /\ rt_result = rt_operation
          /\ rt_invocations = rt_rate_limited + 1
          /\ rt_sleeps = rt_rate_limited
    /\ (rt_sleeps > 0 /\ ~rt_last_sleep.hinted) =>
          LET i == rt_sleeps - 1
              nominal == rt_params.base_delay * Pow2(i)
          IN  /\ (rt_last_sleep.delay - nominal) * 1000
                     <= nominal * rt_params.jitter_factor
              /\ (nominal - rt_last_sleep.delay) * 1000
                     <= nominal * rt_params.jitter_factor

\* two rate-limit errors, two sleeps, the second one jittered, then the value
C19_Witness ==
    /\ rt_pc = "returned"
    /\ rt_rate_limited = 2
    /\ rt_sleeps = 2
    /\ rt_result = ReturnedValue("value_b")
    /\ ~rt_last_sleep.hinted
    /\ rt_last_sleep.delay > rt_params.base_delay * 2

\* C20: when operation() always raises a rate-limit error,
\* _retry_on_rate_limit ends by raising NeonRateLimitError, never the
\* operation's own error, after at most max_attempts invocations; when the
\* total-delay cap did not end it, it made exactly max_attempts invocations
\* and max_attempts - 1 sleeps.
C20_ExhaustionRaises ==
    /\ [](rt_pc # "off" => rt_invocations <= rt_params.max_attempts)
    /\ []((AlwaysRateLimited /\ rt_pc \notin {"off", "call"}) =>
            /\ rt_result = RaisedError(NeonRateLimitError)
            /\ rt_result # rt_operation
            /\ rt_cause # "max_total_delay" =>
                  /\ rt_invocations = rt_params.max_attempts
                  /\ rt_sleeps = rt_params.max_attempts - 1)
    /\ ([]AlwaysRateLimited => <>(rt_pc = "raised"))

\* the attempt cap ended a call whose every invocation was rate limited
C20_Witness ==
    /\ rt_pc = "raised"
    /\ AlwaysRateLimited
    /\ rt_cause = "max_attempts"
    /\ rt_invocations = RATE_LIMIT_MAX_ATTEMPTS
    /\ rt_sleeps = RATE_LIMIT_MAX_ATTEMPTS - 1
    /\ rt_operation.error.type = "HTTPError"

\* ------------------------------------------------------------- C21, C22, C23
\* the step slept
Slept == rt_sleeps' = rt_sleeps + 1

\* C21: both caps of _retry_on_rate_limit are checked before sleeping: the
\* time slept so far never exceeds max_total_delay, a sleep is taken only
\* when it keeps the total within the cap, and the round that raises
\* NeonRateLimitError sleeps nothing after its failed invocation.
C21_CapsCheckedBeforeSleeping ==
    /\ [](rt_pc # "off" => rt_total_delay <= rt_params.max_total_delay)
    /\ [][/\ Slept =>
               /\ rt_total_delay' = rt_total_delay + rt_last_sleep'.delay
               /\ rt_total_delay + rt_last_sleep'.delay
                      <= rt_params.max_total_delay
               /\ rt_sleeps' < rt_params.max_attempts
               /\ rt_pc' = "call"
          /\ (rt_pc = "call" /\ rt_result'.error = NeonRateLimitError) =>
               /\ rt_invocations' = rt_invocations + 1
               /\ rt_sleeps' = rt_sleeps
               /\ rt_total_delay' = rt_total_delay
               /\ rt_last_sleep' = rt_last_sleep]_vars

\* the total cap ended a call that had slept before, with time left under
\* the cap that the refused delay would have exceeded
C21_Witness ==
    /\ rt_pc = "raised"
    /\ rt_cause = "max_total_delay"
    /\ rt_sleeps >= 2
    /\ rt_total_delay < rt_params.max_total_delay
    /\ rt_total_delay > rt_params.max_total_delay \div 2

\* C22: an error of operation() that is not a rate-limit error leaves
\* _retry_on_rate_limit at once and unchanged: that invocation is the last,
\* nothing is slept for it, and this holds after any number of retries.
C22_OtherErrorsPropagate ==
    /\ [](rt_pc = "raised" /\ rt_result.error # NeonRateLimitError =>
            /\ rt_result = rt_operation
            /\ rt_result.error.type \in {"HTTPError", "NeonAPIError"}
            /\ rt_invocations = rt_rate_limited + 1
            /\ rt_sleeps = rt_rate_limited)
    /\ [][(/\ rt_operation'.kind = "raised"
           /\ rt_invocations' = rt_invocations + 1
           /\ \/ rt_operation'.error.type = "HTTPError"
                 /\ ~(rt_operation'.error.response
                      /\ rt_operation'.error.status = 429)
              \/ rt_operation'.error.text = TooManyConnections) =>
               /\ rt_pc' = "raised"
               /\ rt_result' = rt_operation'
               /\ rt_sleeps' = rt_sleeps
               /\ rt_total_delay' = rt_total_delay]_vars

\* an HTTP 500 ends the call after two retries
C22_Witness ==
    /\ rt_pc = "raised"
    /\ rt_result.error.status = 500
    /\ rt_invocations = 3
    /\ rt_sleeps = 2

\* C23: after a rate-limit error with a Retry-After hint of N the next sleep
\* is max(N, 0.1 s) whatever the attempt count; without a usable hint the
\* sleep is the exponential backoff of the attempt.
C23_RetryAfterHonoured ==
    (rt_pc = "call" /\ rt_sleeps > 0) =>
        LET header == rt_operation.error.header
            N == header.value
        IN  IF rt_operation.error.type = "HTTPError" /\ header.kind = "number"
            THEN /\ rt_last_sleep.hinted
                 /\ rt_last_sleep.delay = (IF N > 100 THEN N ELSE 100)
            ELSE /\ ~rt_last_sleep.hinted
                 /\ \E random \in Randoms :
                        rt_last_sleep.delay =
                            _calculate_retry_delay(rt_sleeps - 1,
                                rt_params.base_delay,
                                rt_params.jitter_factor, random)

\* a hint of 0 or less was slept as 0.1 s on the third retry
C23_Witness ==
    /\ rt_pc = "call"
    /\ rt_sleeps = 3
    /\ rt_operation.error.header.kind = "number"
    /\ rt_operation.error.header.value <= 0
    /\ rt_last_sleep.delay = 100

\* ------------------------------------------------------------------ C24
\* character c is the lower-case letter l, or its upper-case form
SameLetter(c, l) ==
    c = l \/ \E n \in 1..26 : c = ascii_uppercase[n] /\ l = ascii_lowercase[n]

\* the message contains the indicator, whatever the case of its letters
MessageHas(text, indicator) ==
    \E i \in 0..(Len(text) - Len(indicator)) :
        \A k \in 1..Len(indicator) : SameLetter(text[i + k], indicator[k])

\* C24: _is_rate_limit_error answers true for a NeonAPIError exactly when
\* its message contains "429", "rate limit" or "too many requests" in any
\* case (so not for "Too many connections to database"), for a plain
\* HTTPError exactly when its response has status 429, and false for every
\* other exception.
C24_Classification ==
    cl_pc = "returned" =>
        /\ cl_result =
              (IF cl_exc.type = "NeonAPIError"
               THEN \E indicator \in {Text429, TextRateLimit,
                                       TextTooManyRequests} :
                        MessageHas(cl_exc.text, indicator)
               ELSE IF cl_exc.type = "HTTPError"
                    THEN cl_exc.response /\ cl_exc.status = 429
                    ELSE FALSE)
        /\ (cl_exc.type = "NeonAPIError" /\ cl_exc.text = TooManyConnections)
              => ~cl_result

\* a provider error whose message holds an indicator in capitals was
\* classified as rate limited
C24_Witness ==
    /\ cl_pc = "returned"
    /\ cl_exc.type = "NeonAPIError"
    /\ cl_exc.text = <<"E", "r", "r", "o", "r", ":", " ", "R", "A", "T", "E", " ", "L", "I", "M", "I", "T", " ", "e", "x", "c", "e", "e", "d", "e", "d">>
    /\ cl_result

\* ------------------------------------------------------------------ C25
\* _wait_for_operations was entered and has been left
WaitLeft ==
    /\ rs_pc \in {"returned", "raised"}
    /\ rs_requests # {}
    /\ rs_error \notin {"restore_error", "no_parent"}
    /\ ~(rs_error = "rate_limit_exhausted" /\ rs_seen = <<>>)

\* every operation handle was last seen finished, skipped or cancelled
AllTerminal == \A op \in DOMAIN rs_seen : rs_seen[op] \in TerminalSuccess

\* C25: _wait_for_operations returns normally if and only if every
\* operation handle has reached finished, skipped or cancelled.  Violated: a
\* handle the restore response reports cancelled is kept pending and
\* polled, and when that poll ends in exhausted rate-limit retries (or every
\* poll fails until the budget is used up) the function raises.
C25_ReturnsIffAllTerminal ==
    WaitLeft => (rs_pc = "returned" <=> AllTerminal)

\* ------------------------------------------------------------- C26, C27
\* C26: the endpoint wait of _create_neon_branch asks for the endpoint
\* status every 0.5 s until the state is active; when the endpoint is still
\* not active after 60 s of waiting it raises a timeout that carries the
\* last state observed; it makes at most 121 status polls and always ends.
C26_EndpointWaitBounded ==
    /\ [](ew_polls <= 121)
    /\ [](ew_pc = "poll" =>
            /\ ew_waited = 5 * ew_polls
            /\ ew_waited <= 600
            /\ ew_state # "active")
    /\ [](ew_pc = "active" => ew_state = "active")
    /\ [](ew_pc = "timeout" =>
            /\ ew_waited = 600
            /\ ew_polls = 121
            /\ ew_state \in {"init", "idle"})
    /\ [][ew_pc' = "timeout" =>
            \E answer \in {"init", "idle"} :
                ew_state' = answer /\ ew_polls' = ew_polls + 1]_vars
    /\ <>(ew_pc # "poll")

\* the 121st poll found the endpoint idle after 60 s: timeout
C26_Witness ==
    /\ ew_pc = "timeout"
    /\ ew_polls = 121
    /\ ew_waited = 600
    /\ ew_state = "idle"

\* C27: a follower in _neon_migrations_synchronized looks for the
\* migrations-done signal every 0.5 s; it goes on only once it has seen the
\* signal, and when the signal has not appeared after 300 s it raises a
\* timeout (the creator failed or is still running): it never waits forever.
C27_FollowerWaitBounded ==
    /\ [](mw_pc = "returned" => mw_done)
    /\ [](mw_pc = "wait" =>
            /\ mw_waited = 5 * mw_polls
            /\ mw_waited <= 3000)
    /\ [](mw_pc = "timeout" => mw_waited = 3000 /\ mw_polls = 601)
    /\ [][mw_pc' = "timeout" => ~mw_done]_vars
    /\ [][mw_pc' = "returned" => mw_done]_vars
    /\ <>(mw_pc # "wait")

\* the signal never appeared: the follower timed out after 300 s
C27_Witness ==
    /\ mw_pc = "timeout"
    /\ mw_waited = 3000
    /\ ~mw_done

\* ------------------------------------------------------------- C28, C29
\* the value is None or empty
NoValue(x) == ~x.some \/ x.value = ""

\* C28: when the API key or the project id resolves to no value,
\* _create_neon_branch ends in a skip, before any provider API call (no
\* branch listing, no branch creation) and with the environment variable as
\* it was.
C28_MissingCredentialsSkip ==
    /\ [](su_pc = "skipped" =>
            /\ NoValue(su_api_key) \/ NoValue(su_project_id)
            /\ su_calls = <<>>
            /\ su_env = su_sources.environ)
    /\ []((su_pc \notin {"off", "start", "resolved"}
             /\ (NoValue(su_api_key) \/ NoValue(su_project_id))) =>
            su_pc = "skipped")
    /\ [](su_calls # <<>> =>
            ~NoValue(su_api_key) /\ ~NoValue(su_project_id))

\* the API key is given, the project id is set nowhere but as an empty
\* environment variable: the set-up ended in a skip
C28_Witness ==
    /\ su_pc = "skipped"
    /\ su_api_key = Str("cli")
    /\ su_project_id = Str("")
    /\ su_sources.project_id.ini = Str("ini")
    /\ su_sources.environ = Str("prior")
    /\ su_env = Str("prior")

\* C29: _get_config_value returns the CLI option when it is given, else
\* the environment variable when it is set, else the ini setting when the
\* caller names one and it holds a non-empty value, else the default: a
\* lower source is used only when every higher one provides nothing.
C29_Precedence ==
    gc_pc = "returned" =>
        LET a == gc_args.sources
            ini_provides == gc_args.ini_name /\ a.ini.some /\ a.ini.value # ""
        IN  /\ a.cli.some => gc_result = a.cli
            /\ (~a.cli.some /\ a.env.some) => gc_result = a.env
            /\ (~a.cli.some /\ ~a.env.some /\ ini_provides) =>
                  gc_result = a.ini
            /\ (~a.cli.some /\ ~a.env.some /\ ~ini_provides) =>
                  gc_result = gc_args.default

\* every source holds a value: the CLI option won
C29_Witness ==
    /\ gc_pc = "returned"
    /\ gc_args.sources = [cli |-> Str("cli"), env |-> Str("env"),
                          ini |-> Str("ini")]
    /\ gc_args.ini_name
    /\ gc_result = Str("cli")

\* ------------------------------------------------------------------ C30
\* C30: every branch name built by _create_neon_branch is pytest-, an
\* optional token and hyphen, the 4 hex characters, and the suffix, written
\* with characters of [A-Za-z0-9_-] only; the token taken from the git
\* branch name has at most 15 characters, no two hyphens in a row and no
\* hyphen at either end.  Violated: the name is cut to 15 characters after
\* it was stripped, so a hyphen in 15th place ends the token.
C30_BranchNameForm ==
    bn_pc = "built" =>
        LET token == bn_git_prefix.value
            rest == bn_input.random_suffix \o bn_input.branch_name_suffix
        IN  /\ bn_name = (IF bn_git_prefix.some
                          THEN PytestPrefix \o token \o <<"-">> \o rest
                          ELSE PytestPrefix \o rest)
            /\ Len(bn_input.random_suffix) >= 4
            /\ \A i \in 1..Len(bn_name) : bn_name[i] \in NameChars
            /\ bn_git_prefix.some =>
                  /\ Len(token) \in 1..15
                  /\ token[1] # "-"
                  /\ token[Len(token)] # "-"
                  /\ \A i \in 1..(Len(token) - 1) :
                        ~(token[i] = "-" /\ token[i + 1] = "-")

LookupCalls(w) == {n \in 1..Len(calls[w]) : calls[w][n].op = "branches"}
CreationCalls(w) == {n \in 1..Len(calls[w]) : calls[w][n].op = "branch_create"}

\* C32: a worker's session looks the default branch up at most once, before
\* its first creation request and however many branches it creates, also
\* when the lookup failed or found no default branch; after such a lookup a
\* run of _create_neon_branch never raises the safety-check error and, when
\* no provider call of it fails, yields its branch.
C32_LookupOnce ==
    /\ [](\A w \in Workers :
            /\ Cardinality(LookupCalls(w)) <= 1
            /\ LookupCalls(w) = {} <=> default_id[w] = Unset
            /\ \A n \in CreationCalls(w) : \E m \in LookupCalls(w) : m < n)
    /\ [][\A w \in Workers :
            (/\ default_id'[w] = NoBranch
             /\ \E n \in 1..Len(NewCalls(w)) : NewCalls(w)[n].op = "branch_create")
            => /\ \A f \in Gens : st'[w][f] = "safety_check" => st[w][f] = "safety_check"
               /\ (faults' = faults + (IF default_id[w] = Unset THEN 1 ELSE 0))
                     => \E f \in Gens : Yields(w, f)]_vars

\* a worker whose lookup gave None created two branches after it
C32_Witness ==
    \E w \in Workers :
        /\ default_id[w] = NoBranch
        /\ Cardinality(LookupCalls(w)) = 1
        /\ Cardinality(CreationCalls(w)) = 2
        /\ Cardinality({f \in Gens : gen[w][f].st = "yielded"}) = 2

\* the TTL in effect for the request: 0 for the migration branch, else the
\* CLI option when given, else the number the ini setting spells
EffectiveTTL ==
    IF ex_input.caller = "_neon_migration_branch" THEN 0
    ELSE IF ex_input.cli.some THEN ex_input.cli.value
    ELSE int_of(ex_input.ini).value

\* C33: the creation request carries an expiry if and only if the TTL in
\* effect is greater than 0, and then it is now + TTL to the second; with a
\* TTL of 0 none is sent; the migration branch is created without an expiry
\* whatever TTL is configured.
C33_ExpiryIffPositiveTTL ==
    ex_pc = "requested" =>
        /\ ex_branch_config.has_expires_at <=> EffectiveTTL > 0
        /\ ex_branch_config.has_expires_at =>
              /\ ex_branch_config.expires_at * 1000
                     <= ex_input.now + EffectiveTTL * 1000
              /\ ex_input.now + EffectiveTTL * 1000
                     < (ex_branch_config.expires_at + 1) * 1000
        /\ EffectiveTTL = 0 => ~ex_branch_config.has_expires_at
        /\ ex_input.caller = "_neon_migration_branch" =>
              ~ex_branch_config.has_expires_at

\* the migration branch was requested with a TTL of 600 s configured
C33_Witness ==
    /\ ex_pc = "requested"
    /\ ex_input.caller = "_neon_migration_branch"
    /\ ex_input.cli = SomeInt(600)
    /\ ex_input.ini = <<"6", "0", "0">>
    /\ ~ex_branch_config.has_expires_at

\* C34: without xdist _neon_branch_for_reset creates a child branch if and
\* only if the migration fixture is overridden and either the schema
\* fingerprint after the migrations differs from the one before or no
\* fingerprint can be taken (no driver); else it creates none and yields the
\* migration branch.  Under xdist every worker creates its own child, whose
\* parent is the shared migration branch.
C34_ChildIffSchemaChanged ==
    fr_pc = "yielded" =>
        /\ fr_input.worker_id = "main" =>
              (fr_result.created <=>
                  /\ fr_input.migrations_defined
                  /\ \/ ~fr_input.driver
                     \/ fr_input.post_rows # fr_input.pre_rows)
        /\ ~fr_result.created => fr_result = ReuseMigrationBranch
        /\ fr_input.worker_id # "main" =>
              fr_result = CreateChild(SharedMigrationBranch.branch_id,
                                      fr_input.worker_id)

\* C35: in _wait_for_operations a status poll that fails with a request
\* error other than a rate limit is taken as still pending: the error does
\* not leave the function, the operation stays in pending_op_ids, and the
\* wait goes on until success or the timeout; before the timeout only a
\* failed operation and exhausted rate-limit retries end the wait with an
\* error.
C35_RequestErrorKeepsPending ==
    /\ [][(rs_pc = "waiting" /\ rs_poll_errors' # {}) =>
             /\ rs_poll_errors' \subseteq rs_pending'
             /\ rs_pc' # "returned"
             /\ rs_error' \in {"none", "operation_failed",
                               "rate_limit_exhausted", "operation_timeout"}
             /\ rs_error' \in {"operation_failed", "rate_limit_exhausted"} =>
                   \E op \in rs_pending \ rs_poll_errors' :
                       rs_error' = "operation_failed" => rs_seen'[op] = "failed"
             /\ (rs_error' = "none" /\ rs_waited' < max_wait_seconds) =>
                   rs_pc' = "waiting"
             /\ rs_pc' = "raised" /\ rs_error' = "operation_timeout" =>
                   rs_waited' >= max_wait_seconds]_vars
    /\ []((rs_pc = "raised" /\ rs_requests = {"restore", "operation_status"}
             /\ rs_waited < max_wait_seconds)
          => rs_error \in {"operation_failed", "rate_limit_exhausted"})

\* after a poll that failed with a request error the wait goes on, and it
\* has gone on for more than one round
C35_Witness ==
    /\ rs_pc = "waiting"
    /\ rs_poll_errors # {}
    /\ rs_poll_errors = rs_pending
    /\ rs_waited > first_poll_delay + poll_interval

\* C36: the creator's session teardown never deletes the shared migration
\* branch while a follower still runs a test against it or against a child
\* forked from it: when the delete call has been issued, no follower that
\* holds the branch is inside a test.  Violated: every worker tears its
\* session down when it has no test left, whatever the other workers do.
C36_DeleteAfterFollowersFinish ==
    cfg.xdist =>
        \A c \in Workers :
            (is_creator[c] /\ Obtained(c)
               /\ DeleteCalls(br[c].mb.branch_id) # {}) =>
                \A f \in Workers \ {c} :
                    (Obtained(f) /\ br[f].mb = br[c].mb) =>
                        pc[f] \notin {"testing", "fn_teardown"}

\* the session's migration step applies something
MigrationsApply == cfg.overridden /\ (cfg.changes \/ cfg.data_only)

\* C37: every test that uses neon_branch_readwrite starts against a branch
\* whose state contains what the session's migration step applied; the
\* reset after a test never reverts it.  Violated: when the fingerprint is
\* unchanged the fixture hands out the migration branch itself, and the
\* reset restores that branch to its own parent, the state before the
\* migrations.
C37_TestsSeeMigrations ==
    \A w \in Workers :
        (pc[w] = "testing" /\ cur[w] = "rw" /\ MigrationsApply) =>
            br[w].reset.branch_id \in migrated

\* C38: within one worker that created both a migration branch and a child
\* test branch, the delete call of the child comes before the delete call
\* of the migration branch, and no restore call for a branch comes after
\* the delete call for that branch.
C38_ChildDeletedFirst ==
    \A w \in Workers : \A n, m \in 1..Len(calls[w]) :
        /\ (/\ gen[w].mb.st # "none" /\ gen[w].reset.st # "none"
            /\ calls[w][n] = Call("branch_delete", gen[w].mb.branch_id, NoBranch)
            /\ calls[w][m] = Call("branch_delete", gen[w].reset.branch_id, NoBranch))
           => m < n
        /\ (/\ calls[w][n].op = "branch_delete"
            /\ calls[w][m].op = "restore"
            /\ calls[w][m].target = calls[w][n].target)
           => m < n

\* a worker restored its child branch, then deleted it, then deleted the
\* migration branch
C38_Witness ==
    \E w \in Workers : \E k, m, n \in 1..Len(calls[w]) :
        /\ pc[w] = "done"
        /\ k < m /\ m < n
        /\ calls[w][k] = Call("restore", gen[w].reset.branch_id, gen[w].mb.branch_id)
        /\ calls[w][m] = Call("branch_delete", gen[w].reset.branch_id, NoBranch)
        /\ calls[w][n] = Call("branch_delete", gen[w].mb.branch_id, NoBranch)

\* C39: a run of _create_neon_branch that raises before its yield (creation
\* error, no endpoint id, endpoint timeout, safety check, password call
\* error) leaves the environment variable exactly as it was; the variable
\* is written only by a run that yields, whose last provider call is the
\* password reset of the new branch.
C39_EnvUntouchedOnFailure ==
    [][\A w \in Workers : \A f \in Gens :
          /\ (st[w][f] \notin CreateErrors /\ st'[w][f] \in CreateErrors) =>
                /\ env'[w] = env[w]
                /\ gen'[w][f] = NoGen
          /\ (env'[w] # env[w] /\ gen[w][f].st = "none" /\ st'[w][f] # st[w][f]
                /\ NewCalls(w) # <<>>) =>
                /\ Yields(w, f)
                /\ NewCalls(w)[Len(NewCalls(w))] =
                      Call("role_password_reset", br'[w][f].branch_id, NoBranch)
                /\ env'[w] = EnvValue(br'[w][f].connection_string)]_vars

\* the password call of the child branch raised while the variable held the
\* connection string of the migration branch: it still holds it
C39_Witness ==
    \E w \in Workers :
        /\ st[w].mb = "active"
        /\ st[w].reset = "password_error"
        /\ calls[w][Len(calls[w])] =
              Call("role_password_reset", FreshId(w, "-test"), NoBranch)
        /\ env[w] = EnvValue(br[w].mb.connection_string)

\* ---------------------------------------------------------------------
\* the call runs with the module's defaults
DefaultRetryParams ==
    rt_params = RetryParams(RATE_LIMIT_BASE_DELAY, RATE_LIMIT_MAX_TOTAL_DELAY,
                            RATE_LIMIT_JITTER_FACTOR, RATE_LIMIT_MAX_ATTEMPTS)

\* every call of operation() so far raised a rate-limit error without a
\* Retry-After number
RateLimitedUnhinted ==
    /\ rt_invocations > 0
    /\ rt_rate_limited = rt_invocations
    /\ ~rt_hinted

\* C40: with the default parameters and no Retry-After hint, an operation
\* that always raises a rate-limit error is called exactly 5 times and slept
\* on exactly 4 times, whatever the jitter: the call is still running after
\* at most 4 calls, and it ends with NeonRateLimitError on the fifth because
\* of the total-delay cap, never because of the attempt cap.
C40_FiveCallsFourSleeps ==
    (DefaultRetryParams /\ RateLimitedUnhinted) =>
        /\ rt_pc = "call" => /\ rt_invocations <= 4
                             /\ rt_sleeps = rt_invocations
        /\ rt_pc # "call" => /\ rt_pc = "raised"
                             /\ rt_invocations = 5
                             /\ rt_sleeps = 4
                             /\ rt_result = RaisedError(NeonRateLimitError)
                             /\ rt_cause = "max_total_delay"

\* the default call ended after rate-limit errors without a hint only
C40_Witness ==
    /\ DefaultRetryParams
    /\ RateLimitedUnhinted
    /\ rt_pc = "raised"
    /\ rt_invocations = 5
    /\ rt_sleeps = 4
    /\ rt_cause = "max_total_delay"

=============================================================================
